---------------------------- MODULE Spec2Model ----------------------------
(***************************************************************************)
(* timetrackcli: the time-bucketed activity store, its compaction, the     *)
(* window resolver, the tracker's sampling loop and the dashboard's        *)
(* Update handlers, modelled from src/timetrackcli.go.                     *)
(*                                                                         *)
(* Instants are Unix seconds in a zone whose offset is a whole number of   *)
(* buckets (the model uses UTC, no DST).  Strings are sequences of byte    *)
(* codes; the keys of Store.Bins are the decimal digit strings that        *)
(* strconv.FormatInt produces.                                             *)
(***************************************************************************)
EXTENDS Integers, Sequences, FiniteSets, TLC

VARIABLES
    now,        \* the wall clock, Unix seconds (time.Now())
    disk,       \* the persisted document at the store path, or NoFile
    store,      \* the tracker's in-memory Store (main: store)
    pc,         \* the tracker's position in the sampling loop
    obs,        \* the tracker's observation of this tick: [bin, working]
    m,          \* the dashboard's dashboardModel
    tickCmds,   \* number of refresh ticks the dashboard has scheduled
    pre,        \* the tracker's store as it was when compactBins was last called
    burst,      \* the buckets in which a tick of this run has observed working
    ticks,      \* tracker ticks taken so far
    keys,       \* dashboard messages handled so far
    last,       \* the kind of the message the dashboard handled last
    savedEdit,  \* the tag edit the dashboard saved last, or NoEdit
    editSeen,   \* the tracker's last reload read a document holding savedEdit
    fs,         \* the directory of the store path at the level of system calls
    pending,    \* what each process holds in memory after a failed save
    cli,        \* the last command-line operation: its argument and exit status
    calc        \* the last call of a report function: its arguments and result

vars == <<now, disk, store, pc, obs, m, tickCmds, pre, burst, ticks, keys,
          last, savedEdit, editSeen, fs, pending, cli, calc>>

----------------------------------------------------------------------------
(* Program constants *)

binMinutes == 5
sampleSeconds == 30
compactMinBins == 50
compactTrigger == 100
defaultGoalMinutes == 480
defaultWorkDays == <<1, 2, 3, 4, 5>>

BinSeconds == binMinutes * 60
DaySeconds == 24 * 3600

(* Bounds of the model *)

MaxTicks == 2
MaxKeys == 3
DashTicks == 1
MaxTagLen == 1
MaxChunks == 3
MaxSaves == 1
\* ticks of the tracker beside the command line
CfgTicks == 1
\* command-line operations in one behaviour
MaxCmds == 2

NoFile == [missing |-> TRUE]
NoStore == [none |-> TRUE]
Malformed == [malformed |-> TRUE]

----------------------------------------------------------------------------
(* strconv.FormatInt(n, 10) and strconv.ParseInt(k, 10, 64) on the         *)
(* non-negative instants of the model: a key is a sequence of digits.      *)

RECURSIVE FormatInt(_)
FormatInt(n) ==
    IF n < 10 THEN <<n>> ELSE Append(FormatInt(n \div 10), n % 10)

RECURSIVE ParseInt(_)
ParseInt(k) ==
    IF Len(k) = 1 THEN k[1]
    ELSE 10 * ParseInt(SubSeq(k, 1, Len(k) - 1)) + k[Len(k)]

(* Civil-time components of an instant (time.Time accessors, UTC).         *)
Minute(t) == (t \div 60) % 60
Hour(t) == (t \div 3600) % 24
Midnight(t) == t - (t % DaySeconds)
Date(t, h, mi) == Midnight(t) + h * 3600 + mi * 60

floorToBinMinuteUp(t) ==
    LET tt == t - (t % 60)
        mm == ((Minute(tt) + binMinutes - 1) \div binMinutes) * binMinutes
    IN  Date(tt, Hour(tt), mm)

floorToBin(t) ==
    LET tt == t - (t % 60)
        mm == (Minute(tt) \div binMinutes) * binMinutes
    IN  Date(tt, Hour(tt), mm)

nextBinStart(t) == floorToBin(t) + BinSeconds

----------------------------------------------------------------------------
(* Store, loadStore, saveStore *)

Range(start, end, status, tag) ==
    [Start |-> start, End |-> end, Status |-> status, Tag |-> tag, Note |-> <<>>]

EmptyBins == <<>>

FreshStore ==
    [Bins |-> EmptyBins, Ranges |-> <<>>,
     Config |-> [DailyGoalMinutes |-> defaultGoalMinutes, WorkDays |-> defaultWorkDays],
     Tags |-> <<>>]

loadStoreNoDefaults(d, ioerr) ==
    IF ioerr \/ d = Malformed THEN [ok |-> FALSE, store |-> NoStore]
    ELSE IF d = NoFile THEN [ok |-> TRUE, store |-> FreshStore]
    ELSE [ok |-> TRUE, store |-> d]

\* loadStore: [ok, store]; ioerr is an I/O error of os.Open other than
\* ErrNotExist; Decode fails on a document that is not JSON
loadStore(d, ioerr) ==
    IF ioerr \/ d = Malformed THEN [ok |-> FALSE, store |-> NoStore]
    ELSE IF d = NoFile THEN [ok |-> TRUE, store |-> FreshStore]
    ELSE [ok |-> TRUE,
          store |-> [d EXCEPT
              !.Config.DailyGoalMinutes =
                  IF @ = 0 THEN defaultGoalMinutes ELSE @,
              !.Config.WorkDays =
                  IF Len(@) = 0 THEN defaultWorkDays ELSE @]]

\* saveStore: the document that replaces the one at path (temp file, rename)
saveStore(s) == s

----------------------------------------------------------------------------
(* upsertBin *)

HasBin(s, k) == k \in DOMAIN s.Bins
BinOr0(s, k) == IF HasBin(s, k) THEN s.Bins[k] ELSE 0
SetBin(s, k, v) ==
    [s EXCEPT !.Bins = (k :> v) @@ s.Bins]

upsertBinOverwrite(s, binStart, working) ==
    SetBin(s, FormatInt(binStart), IF working THEN 1 ELSE 0)

upsertBin(s, binStart, working) ==
    LET k == FormatInt(binStart)
        cur == BinOr0(s, k)
    IN  IF working /\ cur = 0 THEN SetBin(s, k, 1)
        ELSE IF cur = 0 /\ ~working
             THEN (IF ~HasBin(s, k) THEN SetBin(s, k, 0) ELSE s)
             ELSE s

----------------------------------------------------------------------------
(* fetchBins: the window resolver *)

\* the raw-sample pass: every parsable key inside [start, end)
rawPass(s, start, end) ==
    LET P == {<<ParseInt(k), s.Bins[k]>> : k \in DOMAIN s.Bins}
        W == {p \in P : ~(p[1] < start) /\ p[1] < end}
    IN  [t \in {p[1] : p \in W} |-> (CHOOSE p \in W : p[1] = t)[2]] @@ EmptyBins

\* the buckets one range writes: cur from floorToBin(rStart) in bucket steps
\* while cur < rEnd and cur < end, kept when cur >= start
rangeCells(r, start, end) ==
    LET first == floorToBin(r.Start)
        n == (r.End - first) \div BinSeconds
    IN  {cur \in {first + i * BinSeconds : i \in 0..n} :
            cur < r.End /\ cur < end /\ ~(cur < start)}

coversThroughEnd(r, t) == ~(t < r.Start) /\ ~(r.End < t)

\* the half-open interval of r contains t
covers(r, t) == ~(t < r.Start) /\ t < r.End

rangeSkipped(r, start, end) == r.End < start \/ ~(r.Start < end)

\* one iteration of the loop over s.Ranges
rangeStep(res, r, start, end) ==
    LET cells == IF rangeSkipped(r, start, end) THEN {} ELSE rangeCells(r, start, end)
    IN  IF cells = {} THEN res
        ELSE [t \in cells |-> r.Status] @@ res

\* the iterations lo..hi of the loop over s.Ranges, in order
RECURSIVE rangePass(_, _, _, _, _, _)
rangePass(res, ranges, lo, hi, start, end) ==
    IF lo > hi THEN res
    ELSE IF lo = hi THEN rangeStep(res, ranges[lo], start, end)
    ELSE LET mid == (lo + hi) \div 2
             half == rangePass(res, ranges, lo, mid, start, end)
         IN  IF half = half THEN rangePass(half, ranges, mid + 1, hi, start, end)
             ELSE half

fetchBins(s, start, end) ==
    rangePass(rawPass(s, start, end), s.Ranges, 1, Len(s.Ranges), start, end)

----------------------------------------------------------------------------
(* compactBins.  A loop over up to a hundred elements is written as its    *)
(* first half followed by its second half, the first evaluated (by the   *)
(* test on it) before the second is entered, which keeps the evaluation   *)
(* shallow.                                                               *)

\* the exchange sort of lines 143-149
Swap(times, i, j) == [times EXCEPT ![i] = times[j], ![j] = times[i]]

\* the iterations j = lo..hi of the inner loop
RECURSIVE sortInner(_, _, _, _)
sortInner(times, i, lo, hi) ==
    IF lo > hi THEN times
    ELSE IF lo = hi
         THEN (IF times[i] > times[lo] THEN Swap(times, i, lo) ELSE times)
    ELSE LET mid == (lo + hi) \div 2
             half == sortInner(times, i, lo, mid)
         IN  IF Len(half) > 0 THEN sortInner(half, i, mid + 1, hi) ELSE half

\* the iterations i = lo..hi of the outer loop
RECURSIVE sortOuter(_, _, _)
sortOuter(times, lo, hi) ==
    IF lo > hi THEN times
    ELSE IF lo = hi THEN sortInner(times, lo, lo + 1, Len(times))
    ELSE LET mid == (lo + hi) \div 2
             half == sortOuter(times, lo, mid)
         IN  IF Len(half) > 0 THEN sortOuter(half, mid + 1, hi) ELSE half

sortTimes(times) == sortOuter(times, 1, Len(times) - 1)

statusAt(s, t) == BinOr0(s, FormatInt(t))

\* the inner loop of lines 156-164: from j = i it advances while the next
\* instant has the run's status and lies one bucket after times[j]; the
\* result is the first j at which it stops
runGoesOnNoGapCheck(s, times, j, status) ==
    j < Len(times) /\ statusAt(s, times[j + 1]) = status

runGoesOn(s, times, j, status) ==
    /\ j < Len(times)
    /\ statusAt(s, times[j + 1]) = status
    /\ times[j + 1] - times[j] = BinSeconds

runEnd(s, times, i, status) ==
    CHOOSE j \in i..Len(times) :
        /\ ~runGoesOn(s, times, j, status)
        /\ \A x \in i..(j - 1) : runGoesOn(s, times, x, status)

emitStepEndsAtLast(s, times, st) ==
    IF ~(st.i < Len(times) + 1) THEN st
    ELSE LET status == statusAt(s, times[st.i])
             j == runEnd(s, times, st.i, status)
         IN  [i |-> j + 1,
              out |-> Append(st.out, Range(times[st.i], times[j], status, <<>>))]

\* one iteration of the loop of lines 151-174 on [i, out]
emitStep(s, times, st) ==
    IF ~(st.i < Len(times) + 1) THEN st
    ELSE LET status == statusAt(s, times[st.i])
             j == runEnd(s, times, st.i, status)
         IN  [i |-> j + 1,
              out |-> Append(st.out, Range(times[st.i], times[j] + BinSeconds, status, <<>>))]

\* n iterations of that loop (an iteration past its end changes nothing)
RECURSIVE emitLoop(_, _, _, _)
emitLoop(s, times, st, n) ==
    IF n = 0 THEN st
    ELSE IF n = 1 THEN emitStep(s, times, st)
    ELSE LET half == emitLoop(s, times, st, n \div 2)
         IN  IF half.i > 0 THEN emitLoop(s, times, half, n - (n \div 2)) ELSE half

emitRuns(s, times, i) ==
    emitLoop(s, times, [i |-> i, out |-> <<>>], Len(times)).out

\* lines 132-137: the instants of the keys, in iteration order
parseKeys(order) == <<>> \o [i \in 1..Len(order) |-> ParseInt(order[i])]

\* order: the keys of s.Bins in the order the map iteration yields them
compactBinsKeepBins(s, order) ==
    IF Cardinality(DOMAIN s.Bins) < compactMinBins THEN s
    ELSE LET times == sortTimes(parseKeys(order))
         IN  IF Len(times) = 0 THEN s
             ELSE [s EXCEPT !.Ranges = @ \o emitRuns(s, times, 1)]

compactBinsDropsRanges(s, order) ==
    IF Cardinality(DOMAIN s.Bins) < compactMinBins THEN s
    ELSE LET times == sortTimes(parseKeys(order))
         IN  IF Len(times) = 0 THEN s
             ELSE [s EXCEPT !.Ranges = emitRuns(s, times, 1),
                            !.Bins = EmptyBins]

compactBinsUnsorted(s, order) ==
    IF Cardinality(DOMAIN s.Bins) < compactMinBins THEN s
    ELSE LET times == parseKeys(order)
         IN  IF Len(times) = 0 THEN s
             ELSE [s EXCEPT !.Ranges = @ \o emitRuns(s, times, 1),
                            !.Bins = EmptyBins]

compactBinsPrepends(s, order) ==
    IF Cardinality(DOMAIN s.Bins) < compactMinBins THEN s
    ELSE LET times == sortTimes(parseKeys(order))
         IN  IF Len(times) = 0 THEN s
             ELSE [s EXCEPT !.Ranges = emitRuns(s, times, 1) \o @,
                            !.Bins = EmptyBins]

compactBins(s, order) ==
    IF Cardinality(DOMAIN s.Bins) < compactMinBins THEN s
    ELSE LET times == sortTimes(parseKeys(order))
         IN  IF Len(times) = 0 THEN s
             ELSE [s EXCEPT !.Ranges = @ \o emitRuns(s, times, 1),
                            !.Bins = EmptyBins]

\* Iteration orders of a Go map: the model draws from these enumerations
\* the elements of the set T of instants within lo..hi, ascending
RECURSIVE ascending(_, _, _)
ascending(T, lo, hi) ==
    IF T = {} THEN <<>>
    ELSE IF lo = hi THEN <<lo>>
    ELSE LET mid == (lo + hi) \div 2
         IN  ascending({x \in T : x <= mid}, lo, mid)
                 \o ascending({x \in T : x > mid}, mid + 1, hi)

keysAscending(K) ==
    IF K = {} THEN <<>>
    ELSE LET T == {ParseInt(k) : k \in K}
             lo == CHOOSE x \in T : \A y \in T : x <= y
             hi == CHOOSE x \in T : \A y \in T : y <= x
             asc == ascending(T, lo, hi)
         IN  <<>> \o [i \in 1..Len(asc) |-> FormatInt(asc[i])]

Reverse(q) == [i \in 1..Len(q) |-> q[Len(q) + 1 - i]]
Rotate(q, r) == SubSeq(q, r + 1, Len(q)) \o SubSeq(q, 1, r)

iterOrders(K) ==
    LET asc == keysAscending(K)
    IN  {Reverse(asc), Rotate(asc, Len(asc) \div 2)}

----------------------------------------------------------------------------
(* The tracker's sampling loop (main) *)

binCount(s) == Cardinality(DOMAIN s.Bins)

\* working := !la.Before(currentBin), la = now - idle
probeWorking(t, idle) == ~((t - idle) < floorToBin(t))

mustCompactAtLeast(s) == ~(binCount(s) < compactTrigger)

mustCompactAboveNext(s) == binCount(s) > compactTrigger + 1

mustCompact(s) == binCount(s) > compactTrigger

\* one whole iteration of the loop with no other process running and no failure
tickOnce(d, t, working) ==
    LET s1 == loadStore(d, FALSE).store
        s2 == upsertBin(s1, floorToBin(t), working)
    IN  IF mustCompact(s2)
        THEN saveStore(compactBins(s2, keysAscending(DOMAIN s2.Bins)))
        ELSE saveStore(s2)

----------------------------------------------------------------------------
(* Documents the tracker has produced before the model starts: the result  *)
(* of replaying the loop from a missing document, one tick per bucket      *)
(* from instant h.t0, the probe following pattern h.p, the process not     *)
(* running in every h.g-th bucket, until h.c compactions have run and      *)
(* h.n raw samples have accumulated since.  With h.dbl a second tick in    *)
(* the bucket of a compaction observes the opposite of the first.          *)

patWorking(p, k) ==
    CASE p = 1 -> (k % 2 = 0)
      [] p = 2 -> ((k \div 3) % 2 = 0)
      [] p = 3 -> TRUE
      [] OTHER -> ((k \div 7) % 2 = 1)

hasGap(g, k) == g > 0 /\ k % g = g - 1

docRanges(d) == IF d = NoFile THEN <<>> ELSE d.Ranges
docBinCount(d) == IF d = NoFile THEN 0 ELSE binCount(d)

replayDone(st, h) == st.c = h.c /\ docBinCount(st.doc) >= h.n

\* the ticks of bucket k
replayStep(st, k, h) ==
    IF replayDone(st, h) \/ hasGap(h.g, k) THEN st
    ELSE LET t == h.t0 + k * BinSeconds + 60
             d1 == tickOnce(st.doc, t, patWorking(h.p, k))
             ran == Len(d1.Ranges) > Len(docRanges(st.doc))
             again == ran /\ h.dbl
             d2 == IF again THEN tickOnce(d1, t + sampleSeconds, ~patWorking(h.p, k))
                   ELSE d1
         IN  [doc |-> d2, c |-> IF ran THEN st.c + 1 ELSE st.c,
              t |-> IF again THEN t + sampleSeconds ELSE t]

\* the ticks of buckets lo..hi, in order
RECURSIVE replay(_, _, _, _)
replay(st, lo, hi, h) ==
    IF lo > hi THEN st
    ELSE IF lo = hi THEN replayStep(st, lo, h)
    ELSE LET mid == (lo + hi) \div 2
             half == replay(st, lo, mid, h)
         IN  IF half.c >= 0 THEN replay(half, mid + 1, hi, h) ELSE half

ReplayBuckets == 3 * compactTrigger

History(t0, p, g, dbl, c, n) ==
    [t0 |-> t0, p |-> p, g |-> g, dbl |-> dbl, c |-> c, n |-> n]

Histories ==
    {History(DaySeconds, 1, 0, FALSE, 0, compactTrigger),
     History(DaySeconds, 2, 4, FALSE, 0, compactTrigger),
     History(DaySeconds, 3, 0, FALSE, 0, compactTrigger - 1),
     History(DaySeconds - 40 * BinSeconds, 2, 0, FALSE, 0, compactTrigger),
     History(DaySeconds, 4, 0, TRUE, 1, compactTrigger),
     History(DaySeconds, 1, 5, TRUE, 1, compactTrigger)}

----------------------------------------------------------------------------
(* The daily sequence: todayTotals, buildTimelineBlocks *)

daySeqThroughNow(t) ==
    LET first == floorToBin(Midnight(t))
        n == (floorToBin(t) - first) \div BinSeconds + (IF t % BinSeconds = 0 THEN 0 ELSE 1)
    IN  <<>> \o [i \in 1..n |-> first + (i - 1) * BinSeconds]

\* seq: the buckets from floorToBin(midnight) while before floorToBin(t)
daySeq(t) ==
    LET first == floorToBin(Midnight(t))
        n == (floorToBin(t) - first) \div BinSeconds
    IN  <<>> \o [i \in 1..n |-> first + (i - 1) * BinSeconds]

\* status: every bucket of seq idle, then the resolver's result over it
dayStatus(s, t) ==
    LET seq == daySeq(t)
    IN  fetchBins(s, Midnight(t), t) @@ [x \in {seq[i] : i \in 1..Len(seq)} |-> 0]

todayTotalsThroughNow(s, t) ==
    LET seq == Append(daySeq(t), floorToBin(t))
        status == fetchBins(s, Midnight(t), t) @@ [x \in {seq[i] : i \in 1..Len(seq)} |-> 0]
        work == Cardinality({i \in 1..Len(seq) : status[seq[i]] = 1})
    IN  [workMins |-> work * binMinutes, idleMins |-> (Len(seq) - work) * binMinutes]

todayTotals(s, t) ==
    LET seq == daySeq(t)
        status == dayStatus(s, t)
        work == Cardinality({i \in 1..Len(seq) : status[seq[i]] = 1})
    IN  [workMins |-> work * binMinutes, idleMins |-> (Len(seq) - work) * binMinutes]

blockGoesOnAnyStatus(seq, status, j, st) == j <= Len(seq) /\ status[seq[j]] \in {0, 1}

\* the inner loop of lines 265-267: the first j >= i (0-based) at which
\* j = len(seq) or the status differs; as a 1-based index, the first index
\* after the block
blockGoesOn(seq, status, j, st) == j <= Len(seq) /\ status[seq[j]] = st

blockNext(seq, status, i, st) ==
    CHOOSE j \in i..(Len(seq) + 1) :
        /\ ~blockGoesOn(seq, status, j, st)
        /\ \A x \in i..(j - 1) : blockGoesOn(seq, status, x, st)

lastRangeAt(ranges, startBin) ==
    LET hit == {idx \in 1..Len(ranges) : covers(ranges[idx], startBin)}
    IN  IF hit = {} THEN -1
        ELSE (CHOOSE idx \in hit : \A y \in hit : idx >= y) - 1

\* lines 272-284: the first range that contains startBin, or -1
firstRangeAt(ranges, startBin) ==
    LET hit == {idx \in 1..Len(ranges) : covers(ranges[idx], startBin)}
    IN  IF hit = {} THEN -1
        ELSE (CHOOSE idx \in hit : \A y \in hit : idx <= y) - 1

\* one iteration of the loop of lines 261-297 on [i, out]
blockStep(s, seq, status, st) ==
    IF ~(st.i < Len(seq) + 1) THEN st
    ELSE LET startBin == seq[st.i]
             v == status[startBin]
             j == blockNext(seq, status, st.i, v)
             endBin == seq[j - 1] + BinSeconds
             idx == firstRangeAt(s.Ranges, startBin)
         IN  [i |-> j,
              out |-> Append(st.out,
                  [start |-> startBin, end |-> endBin, status |-> v,
                   duration |-> (endBin - startBin) \div 60,
                   tag |-> IF idx >= 0 THEN s.Ranges[idx + 1].Tag ELSE <<>>,
                   note |-> IF idx >= 0 THEN s.Ranges[idx + 1].Note ELSE <<>>,
                   rangeIdx |-> idx])]

RECURSIVE blockLoop(_, _, _, _, _)
blockLoop(s, seq, status, st, n) ==
    IF n = 0 THEN st
    ELSE IF n = 1 THEN blockStep(s, seq, status, st)
    ELSE LET half == blockLoop(s, seq, status, st, n \div 2)
         IN  IF half.i > 0 THEN blockLoop(s, seq, status, half, n - (n \div 2))
             ELSE half

timelineOf(s, t) ==
    LET seq == daySeq(t)
        status == dayStatus(s, t)
    IN  blockLoop(s, seq, status, [i |-> 1, out |-> <<>>], Len(seq)).out

\* totalWork += mins over the rows lo..hi with st == 1
RECURSIVE totalWorkOf(_, _, _)
totalWorkOf(rows, lo, hi) ==
    IF lo > hi THEN 0
    ELSE IF lo = hi THEN (IF rows[lo].status = 1 THEN rows[lo].mins ELSE 0)
    ELSE LET half == totalWorkOf(rows, lo, (lo + hi) \div 2)
         IN  IF half >= 0 THEN half + totalWorkOf(rows, (lo + hi) \div 2 + 1, hi)
             ELSE half

\* reportToday: the rows it prints and the total; its loop (lines 873-889)
\* is the loop of buildTimelineBlocks without the range lookup
reportToday(s, t) ==
    LET blocks == timelineOf(s, t)
        rows == [i \in 1..Len(blocks) |->
                    [start |-> blocks[i].start, end |-> blocks[i].end,
                     mins |-> (blocks[i].end - blocks[i].start) \div 60,
                     status |-> blocks[i].status]]
    IN  [rows |-> rows, totalWork |-> totalWorkOf(rows, 1, Len(rows))]

buildTimelineBlocks(mm, t) == [mm EXCEPT !.timelineBlocks = timelineOf(mm.store, t)]

----------------------------------------------------------------------------
(* Focus statistics: calculateFocusStats *)

focusStepNoReset(status, st, t) ==
    LET currentStatus == status[t]
        currentFocus == IF currentStatus = 1 THEN st.currentFocus + binMinutes
                        ELSE st.currentFocus
    IN  [longestFocus |-> IF currentStatus = 1 /\ currentFocus > st.longestFocus
                          THEN currentFocus ELSE st.longestFocus,
         currentFocus |-> currentFocus,
         prevStatus |-> currentStatus,
         contextSwitches |-> IF currentStatus # st.prevStatus
                             THEN st.contextSwitches + 1 ELSE st.contextSwitches]

\* one iteration of the loop over seq (lines 1338-1355)
focusStep(status, st, t) ==
    LET currentStatus == status[t]
        currentFocus == IF currentStatus = 1 THEN st.currentFocus + binMinutes ELSE 0
    IN  [longestFocus |-> IF currentStatus = 1 /\ currentFocus > st.longestFocus
                          THEN currentFocus ELSE st.longestFocus,
         currentFocus |-> currentFocus,
         prevStatus |-> currentStatus,
         contextSwitches |-> IF currentStatus # st.prevStatus
                             THEN st.contextSwitches + 1 ELSE st.contextSwitches]

\* the iterations for seq[lo..hi], in order
RECURSIVE focusLoop(_, _, _, _, _)
focusLoop(seq, status, st, lo, hi) ==
    IF lo > hi THEN st
    ELSE IF lo = hi THEN focusStep(status, st, seq[lo])
    ELSE LET half == focusLoop(seq, status, st, lo, (lo + hi) \div 2)
         IN  IF half.contextSwitches >= 0
             THEN focusLoop(seq, status, half, (lo + hi) \div 2 + 1, hi)
             ELSE half

calculateFocusStats(s, t) ==
    LET seq == daySeq(t)
        status == dayStatus(s, t)
    IN  IF Len(seq) = 0 THEN [longestFocus |-> 0, contextSwitches |-> 0]
        ELSE LET st == focusLoop(seq, status,
                           [longestFocus |-> 0, currentFocus |-> 0,
                            prevStatus |-> status[seq[1]], contextSwitches |-> 0],
                           1, Len(seq))
             IN  [longestFocus |-> st.longestFocus, contextSwitches |-> st.contextSwitches]

----------------------------------------------------------------------------
(* Tag analytics: calculateTagHours.  The instants of the model lie in     *)
(* January 1970, whose first day is a Thursday.                            *)

\* time.Weekday: Sunday is 0
Weekday(t) == (4 + t \div DaySeconds) % 7

DaysOfJanuary == 31

Periods == {"day", "week", "month"}

\* the switch on period: [start, end)
periodOf(period, t) ==
    CASE period = "day" ->
            [start |-> Midnight(t), end |-> Midnight(t) + DaySeconds]
      [] period = "week" ->
            LET weekday == IF Weekday(t) = 0 THEN 7 ELSE Weekday(t)
                start == Midnight(t) - (weekday - 1) * DaySeconds
            IN  [start |-> start, end |-> start + 7 * DaySeconds]
      [] period = "month" ->
            [start |-> 0, end |-> DaysOfJanuary * DaySeconds]

\* int(d.Minutes()) of a duration of d seconds: truncation toward zero
wholeMinutes(d) == IF d < 0 THEN 0 - ((0 - d) \div 60) ELSE d \div 60

rangeMinsUnclipped(r, start, end) ==
    IF r.Status # 1 \/ r.End < start \/ ~(r.Start < end) THEN 0
    ELSE IF wholeMinutes(r.End - r.Start) > 0 THEN wholeMinutes(r.End - r.Start) ELSE 0

\* the minutes one range adds in the first loop
rangeMins(r, start, end) ==
    IF r.Status # 1 \/ r.End < start \/ ~(r.Start < end) THEN 0
    ELSE LET actualStart == IF r.Start < start THEN start ELSE r.Start
             actualEnd == IF r.End > end THEN end ELSE r.End
             mins == wholeMinutes(actualEnd - actualStart)
         IN  IF mins > 0 THEN mins ELSE 0

\* the first loop's sum for one key: tag, or <<>> for the ranges without tag
RECURSIVE tagMins(_, _, _, _, _)
tagMins(ranges, n, tag, start, end) ==
    IF n = 0 THEN 0
    ELSE tagMins(ranges, n - 1, tag, start, end)
         + (IF ranges[n].Tag = tag THEN rangeMins(ranges[n], start, end) ELSE 0)

\* the bytes of "(untagged)"
Untagged == <<40, 117, 110, 116, 97, 103, 103, 101, 100, 41>>

calculateTagHours(s, period, t) ==
    LET p == periodOf(period, t)
        n == Len(s.Ranges)
        tags == {s.Ranges[i].Tag : i \in {j \in 1..n :
                    s.Ranges[j].Tag # <<>> /\ rangeMins(s.Ranges[j], p.start, p.end) > 0}}
        bins == fetchBins(s, p.start, p.end)
        uncovered == {b \in DOMAIN bins :
                        bins[b] = 1 /\ ~\E i \in 1..n : covers(s.Ranges[i], b)}
        untaggedHours == tagMins(s.Ranges, n, <<>>, p.start, p.end)
                         + binMinutes * Cardinality(uncovered)
        named == [tag \in tags |-> tagMins(s.Ranges, n, tag, p.start, p.end)]
    IN  IF untaggedHours > 0
        THEN (Untagged :> untaggedHours) @@ named
        ELSE named

----------------------------------------------------------------------------
(* The dashboard: saveTag, handleTagDialog, Update *)

NotRunning == [running |-> FALSE]

\* main, lines 1627-1632: the model the dashboard starts with
newDashboard(s, t) ==
    buildTimelineBlocks(
        [running |-> TRUE, store |-> s, width |-> 0, height |-> 0,
         selectedTimeline |-> 0, showTagDialog |-> FALSE, tagInput |-> <<>>,
         availableTags |-> <<>>, selectedTag |-> 0, timelineBlocks |-> <<>>,
         showingTagSuggestions |-> FALSE], t)

\* msg.String() of the keys the model presses; a key of one character is
\* its byte
Keys == {"enter", "esc", "up", "down", "tab", "backspace", "q", "j", "a"}

keyBytes(key) ==
    CASE key = "q" -> <<113>>
      [] key = "j" -> <<106>>
      [] key = "a" -> <<97>>
      [] OTHER -> <<>>

oneChar(key) == Len(keyBytes(key)) = 1

\* sort.Strings on byte strings
RECURSIVE strLess(_, _)
strLess(a, b) ==
    IF Len(b) = 0 THEN FALSE
    ELSE IF Len(a) = 0 THEN TRUE
    ELSE IF a[1] # b[1] THEN a[1] < b[1]
    ELSE strLess(Tail(a), Tail(b))

sortStringsLeavesOrder(q) == q

sortStrings(q) == SortSeq(q, strLess)

contains(slice, item) == \E i \in 1..Len(slice) : slice[i] = item

saveTagAlwaysAppend(s, block, tag) ==
    [s EXCEPT !.Ranges = Append(@, Range(block.start, block.end, block.status, tag))]

saveTagRetimesRange(s, block, tag) ==
    IF block.rangeIdx >= 0 /\ block.rangeIdx < Len(s.Ranges)
    THEN [s EXCEPT !.Ranges[block.rangeIdx + 1] =
                        Range(block.start, block.end, block.status, tag)]
    ELSE [s EXCEPT !.Ranges = Append(@, Range(block.start, block.end, block.status, tag))]

saveTag(s, block, tag) ==
    IF block.rangeIdx >= 0 /\ block.rangeIdx < Len(s.Ranges)
    THEN [s EXCEPT !.Ranges[block.rangeIdx + 1].Tag = tag]
    ELSE [s EXCEPT !.Ranges = Append(@, Range(block.start, block.end, block.status, tag))]

\* the result of a handler: the model, the command it returns, the document
result(mm, cmd, d) == [m |-> mm, cmd |-> cmd, disk |-> d]

closeDialog(mm) == [mm EXCEPT !.showTagDialog = FALSE, !.showingTagSuggestions = FALSE]

handleTagDialog(mm, key, d, t) ==
    CASE key = "esc" -> result(closeDialog(mm), "none", d)
      [] key = "enter" ->
            IF mm.showingTagSuggestions /\ mm.selectedTag < Len(mm.availableTags)
            THEN result([mm EXCEPT !.tagInput = mm.availableTags[mm.selectedTag + 1],
                                   !.showingTagSuggestions = FALSE], "none", d)
            ELSE IF mm.selectedTimeline < Len(mm.timelineBlocks)
            THEN LET block == mm.timelineBlocks[mm.selectedTimeline + 1]
                     s1 == saveTag(mm.store, block, mm.tagInput)
                     s2 == IF mm.tagInput # <<>> /\ ~contains(s1.Tags, mm.tagInput)
                           THEN [s1 EXCEPT !.Tags = sortStrings(Append(@, mm.tagInput))]
                           ELSE s1
                 IN  result(closeDialog(buildTimelineBlocks([mm EXCEPT !.store = s2], t)),
                            "none", saveStore(s2))
            ELSE result(closeDialog(mm), "none", d)
      [] key = "up" ->
            IF mm.showingTagSuggestions /\ mm.selectedTag > 0
            THEN result([mm EXCEPT !.selectedTag = @ - 1], "none", d)
            ELSE result(mm, "none", d)
      [] key = "down" ->
            IF mm.showingTagSuggestions /\ mm.selectedTag < Len(mm.availableTags) - 1
            THEN result([mm EXCEPT !.selectedTag = @ + 1], "none", d)
            ELSE result(mm, "none", d)
      [] key = "tab" ->
            IF Len(mm.availableTags) > 0
            THEN result([mm EXCEPT !.showingTagSuggestions = ~@,
                                   !.selectedTag = IF ~mm.showingTagSuggestions THEN 0 ELSE @],
                        "none", d)
            ELSE result(mm, "none", d)
      [] key = "backspace" ->
            IF Len(mm.tagInput) > 0
            THEN result([mm EXCEPT !.tagInput = SubSeq(@, 1, Len(@) - 1)], "none", d)
            ELSE result(mm, "none", d)
      [] OTHER ->
            IF oneChar(key)
            THEN result([mm EXCEPT !.tagInput = @ \o keyBytes(key)], "none", d)
            ELSE result(mm, "none", d)

updateKey(mm, key, d, t) ==
    IF mm.showTagDialog THEN handleTagDialog(mm, key, d, t)
    ELSE CASE key \in {"q", "esc", "ctrl+c"} -> result(mm, "quit", d)
           [] key \in {"up", "k"} ->
                 IF mm.selectedTimeline > 0
                 THEN result([mm EXCEPT !.selectedTimeline = @ - 1], "none", d)
                 ELSE result(mm, "none", d)
           [] key \in {"down", "j"} ->
                 IF mm.selectedTimeline < Len(mm.timelineBlocks) - 1
                 THEN result([mm EXCEPT !.selectedTimeline = @ + 1], "none", d)
                 ELSE result(mm, "none", d)
           [] key = "enter" ->
                 IF Len(mm.timelineBlocks) > 0
                 THEN result([mm EXCEPT !.showTagDialog = TRUE, !.tagInput = <<>>,
                                        !.selectedTag = 0,
                                        !.showingTagSuggestions = FALSE,
                                        !.availableTags = mm.store.Tags], "none", d)
                 ELSE result(mm, "none", d)
           [] OTHER -> result(mm, "none", d)

updateWindowSize(mm, w, h, d) == result([mm EXCEPT !.width = w, !.height = h], "none", d)

updateTickAlwaysReload(mm, d, t, ioerr) ==
    LET r == loadStore(d, ioerr)
    IN  IF r.ok
        THEN result(buildTimelineBlocks([mm EXCEPT !.store = r.store], t), "tick", d)
        ELSE result(mm, "tick", d)

updateTick(mm, d, t, ioerr) ==
    IF ~mm.showTagDialog
    THEN LET r == loadStore(d, ioerr)
         IN  IF r.ok
             THEN result(buildTimelineBlocks([mm EXCEPT !.store = r.store], t), "tick", d)
             ELSE result(mm, "tick", d)
    ELSE result(mm, "tick", d)


----------------------------------------------------------------------------
(* The config command: main (config branch), parseTimeToMinutes,           *)
(* parseWorkDays.  A command-line string is a sequence of characters.      *)

\* strings.Index: the position of the first c in str, 0 when there is none
IndexOf(str, c) ==
    IF \E i \in 1..Len(str) : str[i] = c
    THEN CHOOSE i \in 1..Len(str) : str[i] = c /\ \A j \in 1..(i - 1) : str[j] # c
    ELSE 0

\* strings.SplitN(str, sep, 2)
SplitN2(str, sep) ==
    LET i == IndexOf(str, sep)
    IN  IF i = 0 THEN <<str>>
        ELSE <<SubSeq(str, 1, i - 1), SubSeq(str, i + 1, Len(str))>>

\* strings.Split(str, sep)
RECURSIVE Split(_, _)
Split(str, sep) ==
    LET i == IndexOf(str, sep)
    IN  IF i = 0 THEN <<str>>
        ELSE <<SubSeq(str, 1, i - 1)>> \o Split(SubSeq(str, i + 1, Len(str)), sep)

Digits == <<"0", "1", "2", "3", "4", "5", "6", "7", "8", "9">>

isDigit(c) == \E i \in 1..10 : Digits[i] = c

digitValue(c) == (CHOOSE i \in 1..10 : Digits[i] = c) - 1

RECURSIVE digitsValue(_)
digitsValue(str) ==
    IF Len(str) = 0 THEN 0
    ELSE 10 * digitsValue(SubSeq(str, 1, Len(str) - 1)) + digitValue(str[Len(str)])

\* strconv.Atoi: an optional sign, then one or more decimal digits
Atoi(str) ==
    LET signed == Len(str) > 0 /\ str[1] \in {"+", "-"}
        body == IF signed THEN Tail(str) ELSE str
    IN  IF Len(body) = 0 \/ \E i \in 1..Len(body) : ~isDigit(body[i])
        THEN [ok |-> FALSE, n |-> 0]
        ELSE [ok |-> TRUE,
              n |-> IF signed /\ str[1] = "-" THEN 0 - digitsValue(body)
                    ELSE digitsValue(body)]

UpperCase == <<"A", "B", "C", "D", "E", "F", "G", "H", "I", "J", "K", "L", "M",
               "N", "O", "P", "Q", "R", "S", "T", "U", "V", "W", "X", "Y", "Z">>
LowerCase == <<"a", "b", "c", "d", "e", "f", "g", "h", "i", "j", "k", "l", "m",
               "n", "o", "p", "q", "r", "s", "t", "u", "v", "w", "x", "y", "z">>

\* strings.ToLower
ToLower(str) ==
    [i \in 1..Len(str) |->
        IF \E j \in 1..26 : UpperCase[j] = str[i]
        THEN LowerCase[CHOOSE j \in 1..26 : UpperCase[j] = str[i]]
        ELSE str[i]]

isSpace(c) == c \in {" ", "\t", "\n", "\r"}

\* strings.TrimSpace
TrimSpace(str) ==
    LET keep == {i \in 1..Len(str) : ~isSpace(str[i])}
    IN  IF keep = {} THEN <<>>
        ELSE SubSeq(str, CHOOSE i \in keep : \A j \in keep : ~(j < i),
                         CHOOSE i \in keep : \A j \in keep : ~(j > i))

\* dayMap[name]: the day's number, 0 when the name is no key of the map
dayMap(name) ==
    CASE name = <<"m", "o", "n">> -> 1
      [] name = <<"t", "u", "e">> -> 2
      [] name = <<"w", "e", "d">> -> 3
      [] name = <<"t", "h", "u">> -> 4
      [] name = <<"f", "r", "i">> -> 5
      [] name = <<"s", "a", "t">> -> 6
      [] name = <<"s", "u", "n">> -> 7
      [] OTHER -> 0

parseTimeToMinutesNoCheck(timeStr) ==
    LET parts == Split(timeStr, ":")
        hours == Atoi(parts[1])
        mins == IF Len(parts) > 1 THEN Atoi(parts[2]) ELSE [ok |-> TRUE, n |-> 0]
    IN  [ok |-> TRUE, n |-> hours.n * 60 + mins.n]

parseTimeToMinutes(timeStr) ==
    LET parts == Split(timeStr, ":")
    IN  IF Len(parts) # 2 THEN [ok |-> FALSE, n |-> 0]
        ELSE LET hours == Atoi(parts[1])
                 mins == Atoi(parts[2])
             IN  IF ~hours.ok THEN [ok |-> FALSE, n |-> 0]
                 ELSE IF ~mins.ok THEN [ok |-> FALSE, n |-> 0]
                 ELSE [ok |-> TRUE, n |-> hours.n * 60 + mins.n]

\* for i := start; i <= end; i++ { days = append(days, i) }
dayRange(start, end) ==
    IF start > end THEN <<>> ELSE [i \in 1..(end - start + 1) |-> start + i - 1]

parseWorkDays(workDaysStr) ==
    IF IndexOf(workDaysStr, "-") # 0
    THEN LET parts == Split(workDaysStr, "-")
         IN  IF Len(parts) # 2 THEN [ok |-> FALSE, days |-> <<>>]
             ELSE LET start == dayMap(ToLower(parts[1]))
                      end == dayMap(ToLower(parts[2]))
                  IN  IF start = 0 \/ end = 0 THEN [ok |-> FALSE, days |-> <<>>]
                      ELSE [ok |-> TRUE, days |-> dayRange(start, end)]
    ELSE LET parts == Split(workDaysStr, ",")
             day(i) == dayMap(ToLower(TrimSpace(parts[i])))
         IN  IF \E i \in 1..Len(parts) : day(i) = 0
             THEN [ok |-> FALSE, days |-> <<>>]
             ELSE [ok |-> TRUE, days |-> [i \in 1..Len(parts) |-> day(i)]]

KeyDailyGoal == <<"d", "a", "i", "l", "y", "g", "o", "a", "l">>
KeyWorkDays == <<"w", "o", "r", "k", "d", "a", "y", "s">>

\* the outcome of the command: exit status, whether saveStore replaced the
\* document, and the document afterwards
outcome(exit, wrote, d) == [exit |-> exit, wrote |-> wrote, disk |-> d]

\* main with -config arg on document d; ioerr: os.Open fails, saveErr:
\* saveStore fails
configCmd(d, arg, ioerr, saveErr) ==
    LET parts == SplitN2(arg, "=")
    IN  IF Len(parts) # 2 THEN outcome(1, FALSE, d)
        ELSE LET r == loadStore(d, ioerr)
             IN  IF ~r.ok THEN outcome(1, FALSE, d)
                 ELSE IF parts[1] = KeyDailyGoal
                 THEN LET t == parseTimeToMinutes(parts[2])
                      IN  IF ~t.ok THEN outcome(1, FALSE, d)
                          ELSE IF saveErr THEN outcome(1, FALSE, d)
                          ELSE outcome(0, TRUE,
                                   saveStore([r.store EXCEPT !.Config.DailyGoalMinutes = t.n]))
                 ELSE IF parts[1] = KeyWorkDays
                 THEN LET w == parseWorkDays(parts[2])
                      IN  IF ~w.ok THEN outcome(1, FALSE, d)
                          ELSE IF saveErr THEN outcome(1, FALSE, d)
                          ELSE outcome(0, TRUE,
                                   saveStore([r.store EXCEPT !.Config.WorkDays = w.days]))
                 ELSE outcome(1, FALSE, d)

\* arguments the command accepts
ValidArgs ==
    {<<"d", "a", "i", "l", "y", "g", "o", "a", "l", "=", "0", "7", ":", "3", "0">>,
     <<"d", "a", "i", "l", "y", "g", "o", "a", "l", "=", "0", ":", "0", "0">>,
     <<"d", "a", "i", "l", "y", "g", "o", "a", "l", "=", "0", "0", ":", "0", "0">>,
     <<"d", "a", "i", "l", "y", "g", "o", "a", "l", "=", "-", "1", ":", "3", "0">>,
     <<"w", "o", "r", "k", "d", "a", "y", "s", "=", "M", "o", "n", "-", "F", "r", "i">>,
     <<"w", "o", "r", "k", "d", "a", "y", "s", "=", "s", "a", "t", ",", " ", "S", "u", "n">>,
     <<"w", "o", "r", "k", "d", "a", "y", "s", "=", "m", "o", "n", ",", "t", "u", "e", ",", "M", "o", "n">>,
     <<"w", "o", "r", "k", "d", "a", "y", "s", "=", "f", "r", "i", "-", "m", "o", "n">>}

\* no = between key and value
NoSeparatorArgs ==
    {<<"d", "a", "i", "l", "y", "g", "o", "a", "l">>}

\* a key that is neither dailygoal nor workdays
UnknownKeyArgs ==
    {<<"g", "o", "a", "l", "=", "0", "7", ":", "3", "0">>,
     <<"D", "a", "i", "l", "y", "g", "o", "a", "l", "=", "1", ":", "0", "0">>}

\* a time that is not HH:MM with integer parts
BadTimeArgs ==
    {<<"d", "a", "i", "l", "y", "g", "o", "a", "l", "=", "0", "7", "3", "0">>,
     <<"d", "a", "i", "l", "y", "g", "o", "a", "l", "=", "7", ":", "3", "x">>,
     <<"d", "a", "i", "l", "y", "g", "o", "a", "l", "=", "1", ":", "2", ":", "3">>,
     <<"d", "a", "i", "l", "y", "g", "o", "a", "l", "=", ":", "3", "0">>}

\* a workday token that is no day name, or no range of two
BadDayArgs ==
    {<<"w", "o", "r", "k", "d", "a", "y", "s", "=", "m", "o", "n", ",", "x", "y", "z">>,
     <<"w", "o", "r", "k", "d", "a", "y", "s", "=", "m", "o", "n", "-">>,
     <<"w", "o", "r", "k", "d", "a", "y", "s", "=", "m", "o", "n", "-", "t", "u", "e", "-", "w", "e", "d">>,
     <<"w", "o", "r", "k", "d", "a", "y", "s", "=">>}

InvalidArgs == NoSeparatorArgs \cup UnknownKeyArgs \cup BadTimeArgs \cup BadDayArgs

ConfigArgs == ValidArgs \cup InvalidArgs

----------------------------------------------------------------------------
(* Report arithmetic: humanDuration, formatPercentage, isWorkDay *)

\* Go's integer division and remainder: the quotient is truncated toward 0
quo(a, b) ==
    IF (a < 0) = (b < 0)
    THEN (IF a < 0 THEN 0 - a ELSE a) \div (IF b < 0 THEN 0 - b ELSE b)
    ELSE 0 - ((IF a < 0 THEN 0 - a ELSE a) \div (IF b < 0 THEN 0 - b ELSE b))

rem(a, b) == a - b * quo(a, b)

\* the text of a string constant, one character per element
RECURSIVE decimal(_)
decimal(n) ==
    IF n < 10 THEN <<Digits[n + 1]>> ELSE Append(decimal(n \div 10), Digits[(n % 10) + 1])

\* fmt.Sprintf("%d", n)
formatD(n) == IF n < 0 THEN <<"-">> \o decimal(0 - n) ELSE decimal(n)

humanDuration(mins) ==
    LET h == quo(mins, 60)
        mm == rem(mins, 60)
    IN  IF h > 0 /\ mm > 0
        THEN formatD(h) \o <<" ", "h", "r", " ">> \o formatD(mm) \o <<" ", "m", "i", "n", "s">>
        ELSE IF h > 0
        THEN (IF h = 1 THEN <<"1", " ", "h", "r">>
              ELSE formatD(h) \o <<" ", "h", "r", "s">>)
        ELSE IF mm = 1 THEN <<"1", " ", "m", "i", "n">>
        ELSE formatD(mm) \o <<" ", "m", "i", "n", "s">>

formatPercentageDivideFirst(workMins, goalMins) ==
    IF goalMins = 0 THEN <<"0", "%">>
    ELSE formatD(quo(workMins, goalMins) * 100) \o <<"%", " ", "o", "f", " ">>
         \o humanDuration(goalMins)

formatPercentage(workMins, goalMins) ==
    IF goalMins = 0 THEN <<"0", "%">>
    ELSE formatD(quo(workMins * 100, goalMins)) \o <<"%", " ", "o", "f", " ">>
         \o humanDuration(goalMins)

isWorkDaySundayZero(t, workDays) ==
    \E i \in 1..Len(workDays) : workDays[i] = Weekday(t)

isWorkDay(t, workDays) ==
    LET weekday == IF Weekday(t) = 0 THEN 7 ELSE Weekday(t)
    IN  \E i \in 1..Len(workDays) : workDays[i] = weekday

----------------------------------------------------------------------------
(* Period goals: the calendar (time.Date, AddDate), report,               *)
(* reportAggregateDaily, reportYearMonthly, calculatePeriodProgress.      *)
(* Instants and civil readings are in seconds from 1970-01-01 00:00.     *)

isLeap(y) == (y % 4 = 0 /\ y % 100 # 0) \/ y % 400 = 0

daysIn(y, mo) ==
    CASE mo \in {4, 6, 9, 11} -> 30
      [] mo = 2 -> (IF isLeap(y) THEN 29 ELSE 28)
      [] OTHER -> 31

\* the day number of January 1 of year y (1970: day 0)
RECURSIVE yearStartDay(_)
yearStartDay(y) ==
    IF y = 1970 THEN 0
    ELSE yearStartDay(y - 1) + (IF isLeap(y - 1) THEN 366 ELSE 365)

\* the day number of the first of month mo; month 13 is January of y + 1
RECURSIVE monthStartDay(_, _)
monthStartDay(y, mo) ==
    IF mo = 1 THEN yearStartDay(y)
    ELSE monthStartDay(y, mo - 1) + daysIn(y, mo - 1)

Years == 1970..1980

\* t.Year(), t.Month()
Year(t) ==
    CHOOSE y \in Years :
        /\ yearStartDay(y) <= t \div DaySeconds
        /\ t \div DaySeconds < yearStartDay(y + 1)

Month(t) ==
    CHOOSE mo \in 1..12 :
        /\ monthStartDay(Year(t), mo) <= t \div DaySeconds
        /\ t \div DaySeconds < monthStartDay(Year(t), mo + 1)

\* the civil reading of year y, month mo, day 1, 00:00:00
firstOfMonth(y, mo) == monthStartDay(y, mo) * DaySeconds

\* A location is the zone offset before its first listed transition and
\* the transitions, each with the instant it happens at and the offset from
\* then on.  NewYork holds the transitions of America/New_York from
\* 26 October 1969 to 29 April 1973.
UTC == [before |-> 0, trans |-> <<>>]

NewYork ==
    [before |-> 0 - 4 * 3600,
     trans |-> <<[at |-> 6 * 3600 - 67 * DaySeconds, offset |-> 0 - 5 * 3600],
                 [at |-> 115 * DaySeconds + 7 * 3600, offset |-> 0 - 4 * 3600],
                 [at |-> 297 * DaySeconds + 6 * 3600, offset |-> 0 - 5 * 3600],
                 [at |-> 479 * DaySeconds + 7 * 3600, offset |-> 0 - 4 * 3600],
                 [at |-> 668 * DaySeconds + 6 * 3600, offset |-> 0 - 5 * 3600],
                 [at |-> 850 * DaySeconds + 7 * 3600, offset |-> 0 - 4 * 3600],
                 [at |-> 1032 * DaySeconds + 6 * 3600, offset |-> 0 - 5 * 3600],
                 [at |-> 1214 * DaySeconds + 7 * 3600, offset |-> 0 - 4 * 3600]>>]

Locations == {UTC, NewYork}

\* Location.lookup: the zone in force at instant t with the instants it
\* begins and ends at (alpha and omega, here -2^30 and 2^30, for the
\* first and the last zone: before and after every instant in use)
lookup(loc, t) ==
    LET past == {i \in 1..Len(loc.trans) : loc.trans[i].at <= t}
        k == Cardinality(past)
    IN  [offset |-> IF k = 0 THEN loc.before ELSE loc.trans[k].offset,
         start |-> IF k = 0 THEN 0 - 2^30 ELSE loc.trans[k].at,
         end |-> IF k = Len(loc.trans) THEN 2^30 ELSE loc.trans[k + 1].at]

\* the civil clock reading of instant t in loc, in seconds from
\* 1970-01-01 00:00 of the civil calendar: what t.Year(), t.Month(),
\* t.Day(), t.Hour(), t.Minute(), t.Weekday() are read from
civilOf(loc, t) == t + lookup(loc, t).offset

\* time.Date(year, month, day, hour, min, sec, 0, loc) for the civil
\* reading c: the zone is looked up at c taken as an instant, and once
\* more at the corrected instant when that falls outside the zone found
timeDate(loc, c) ==
    LET z == lookup(loc, c)
        utc == c - z.offset
    IN  IF z.offset = 0 THEN c
        ELSE IF utc < z.start \/ utc >= z.end THEN c - lookup(loc, utc).offset
        ELSE utc

\* floorToBin for a time.Time of location loc
floorToBinIn(loc, t) ==
    LET tt == civilOf(loc, t - (t % 60))
        mm == (Minute(tt) \div binMinutes) * binMinutes
    IN  timeDate(loc, Date(tt, Hour(tt), mm))

nextBinStartIn(loc, t) == floorToBinIn(loc, t) + BinSeconds

\* Monday 00:00 of the week of civil reading c, as a civil reading
weekStartOf(c) ==
    LET weekday == IF Weekday(c) = 0 THEN 7 ELSE Weekday(c)
    IN  Midnight(c) - (weekday - 1) * DaySeconds

\* the count of the loop `for i := 0; i < days; i++` over
\* isWorkDay(start.AddDate(0, 0, i)), start being a civil midnight
workDaysFrom(start, days, workDays) ==
    Cardinality({i \in 0..(days - 1) : isWorkDay(start + i * DaySeconds, workDays)})

\* the goal line of reportAggregateDaily: printed when the range has a workday
reportAggregateGoal(cfg, start, days) ==
    LET workDaysInRange == workDaysFrom(start, days, cfg.WorkDays)
    IN  IF workDaysInRange > 0
        THEN [shown |-> TRUE, mins |-> workDaysInRange * cfg.DailyGoalMinutes]
        ELSE [shown |-> FALSE, mins |-> 0]

\* the loop `for d := start; d.Before(end); d = d.AddDate(0, 0, 1)` over
\* isWorkDay(d): start is a civil midnight, end an instant
workDaysBefore(loc, start, end, workDays) ==
    Cardinality({i \in 0..((end - timeDate(loc, start)) \div DaySeconds + 1) :
                    /\ timeDate(loc, start + i * DaySeconds) < end
                    /\ isWorkDay(start + i * DaySeconds, workDays)})

\* the goal line of reportYearMonthly: the months' workdays added up
RECURSIVE workDaysOfMonths(_, _, _, _)
workDaysOfMonths(loc, y, mo, workDays) ==
    IF mo = 0 THEN 0
    ELSE workDaysOfMonths(loc, y, mo - 1, workDays)
         + workDaysBefore(loc, firstOfMonth(y, mo),
                          timeDate(loc, firstOfMonth(y, mo + 1)), workDays)

reportYearGoal(loc, cfg, y) ==
    [shown |-> TRUE,
     mins |-> workDaysOfMonths(loc, y, 12, cfg.WorkDays) * cfg.DailyGoalMinutes]

\* report(s, rng): the goal it prints at instant t in location loc
reportGoal(loc, cfg, rng, t) ==
    LET c == civilOf(loc, t)
    IN  CASE rng = "week" -> reportAggregateGoal(cfg, weekStartOf(c), 7)
          [] rng = "month" ->
                LET start == timeDate(loc, firstOfMonth(Year(c), Month(c)))
                    next == timeDate(loc, firstOfMonth(Year(c), Month(c) + 1))
                    \* int(next.Sub(start).Hours() / 24)
                    days == (next - start) \div DaySeconds
                IN  reportAggregateGoal(cfg, firstOfMonth(Year(c), Month(c)), days)
          [] rng = "year" -> reportYearGoal(loc, cfg, Year(c))

\* calculatePeriodProgress: weekGoal, monthGoal, yearGoal at instant t
calculatePeriodProgress(loc, cfg, t) ==
    LET c == civilOf(loc, t)
        goal(start, end) ==
            cfg.DailyGoalMinutes * workDaysBefore(loc, start, timeDate(loc, end), cfg.WorkDays)
    IN  [week |-> goal(weekStartOf(c), weekStartOf(c) + 7 * DaySeconds),
         month |-> goal(firstOfMonth(Year(c), Month(c)), firstOfMonth(Year(c), Month(c) + 1)),
         year |-> goal(firstOfMonth(Year(c), 1), firstOfMonth(Year(c) + 1, 1))]

----------------------------------------------------------------------------
(* findBestWorstDays and the box View builds from it, in the location UTC *)

\* the working minutes of the 24 hours from dayStart
dayWorkMins(s, dayStart) ==
    LET bins == fetchBins(s, dayStart, dayStart + DaySeconds)
    IN  binMinutes * Cardinality({b \in DOMAIN bins : bins[b] = 1})

\* reportAggregateDaily: the working minutes of its rows, start being a
\* midnight
aggregateDailyRows(s, start, days) ==
    [i \in 1..days |-> dayWorkMins(s, Midnight(start + (i - 1) * DaySeconds))]

\* create7DayWorkingHours: workMins of dayIndex 0..6, six days ago to today
sevenDayWorkMins(s, t) ==
    [i \in 1..7 |-> dayWorkMins(s, Midnight(t - (6 - (i - 1)) * DaySeconds))]

bestWorstStepCountsIdle(s, t, dayIndex, acc) ==
    LET targetDay == t - (29 - dayIndex) * DaySeconds
        workMins == dayWorkMins(s, Midnight(targetDay))
        best == IF workMins > acc.bestMins
                THEN [acc EXCEPT !.bestMins = workMins, !.bestDay = targetDay]
                ELSE acc
    IN  IF workMins < best.worstMins
        THEN [best EXCEPT !.worstMins = workMins, !.worstDay = targetDay]
        ELSE best

\* one iteration of the loop over dayIndex
bestWorstStep(s, t, dayIndex, acc) ==
    LET targetDay == t - (29 - dayIndex) * DaySeconds
        workMins == dayWorkMins(s, Midnight(targetDay))
        best == IF workMins > acc.bestMins
                THEN [acc EXCEPT !.bestMins = workMins, !.bestDay = targetDay]
                ELSE acc
    IN  IF workMins = 0 THEN acc
        ELSE IF workMins < best.worstMins
             THEN [best EXCEPT !.worstMins = workMins, !.worstDay = targetDay]
             ELSE best

\* the iterations dayIndex..29
RECURSIVE bestWorstLoop(_, _, _, _)
bestWorstLoop(s, t, dayIndex, acc) ==
    IF dayIndex >= 30 THEN acc
    ELSE LET step == bestWorstStep(s, t, dayIndex, acc)
         IN  IF step.bestMins >= -1 THEN bestWorstLoop(s, t, dayIndex + 1, step)
             ELSE step

\* bestDay and worstDay start as the zero time.Time, written 0 here
findBestWorstDays(s, t) ==
    bestWorstLoop(s, t, 0, [bestDay |-> 0, bestMins |-> -1, worstDay |-> 0, worstMins |-> 9999])

\* what the best / worst box shows: a day and its minutes, or "No work
\* days found"
bestWorstBox(found) ==
    [best |-> IF found.bestMins > 0
              THEN [shown |-> TRUE, day |-> Midnight(found.bestDay), mins |-> found.bestMins]
              ELSE [shown |-> FALSE],
     worst |-> IF found.worstMins < 9999
               THEN [shown |-> TRUE, day |-> Midnight(found.worstDay), mins |-> found.worstMins]
               ELSE [shown |-> FALSE]]

----------------------------------------------------------------------------
(* saveStore and loadStore at the level of system calls *)

\* the processes that save: both run saveStore on the same path
Writers == {"tracker", "dashboard"}

\* a document is the sequence of the chunks json.Encoder hands to the file;
\* chunk i of the snapshot of w is <<w, i>>
snapLen(w) == IF w = "tracker" THEN MaxChunks ELSE MaxChunks - 1

snapshot(w) == [i \in 1..snapLen(w) |-> <<w, i>>]

Hole == <<"hole", 0>>

Snapshots == Writers \cup {"previous"}

\* write(2) at an offset: the file grows as needed, a gap reads as zeros
writeAt(content, off, chunks) ==
    LET n == IF Len(content) > off + Len(chunks) THEN Len(content) ELSE off + Len(chunks)
    IN  [i \in 1..n |->
            IF i > off /\ ~(i > off + Len(chunks)) THEN chunks[i - off]
            ELSE IF i > Len(content) THEN Hole
            ELSE content[i]]

\* json.Decoder.Decode reads the first JSON value of the file and ignores
\* what follows it
decode(content) ==
    LET whole(w) == /\ ~(Len(content) < snapLen(w))
                    /\ \A i \in 1..snapLen(w) : content[i] = <<w, i>>
        prefix(w) == \A i \in 1..Len(content) :
                        ~(i > snapLen(w)) /\ content[i] = <<w, i>>
    IN  IF \E w \in Snapshots : whole(w)
        THEN [kind |-> "complete", of |-> CHOOSE w \in Snapshots : whole(w)]
        ELSE IF \E w \in Snapshots : prefix(w)
        THEN [kind |-> "partial", of |-> "none"]
        ELSE [kind |-> "mixed", of |-> "none"]

NotLoaded == [kind |-> "none", of |-> "none"]

\* the store path holds the previous document, no temporary file exists
FsIdle ==
    [dir |-> [path |-> 1, tmp |-> 0],
     inodes |-> <<snapshot("previous")>>,
     proc |-> [w \in Writers |-> [pc |-> "idle", fd |-> 0, off |-> 0, saves |-> 0]],
     seen |-> NotLoaded]

\* what a save or a load leaves alone
otherVars == <<now, disk, store, pc, obs, m, tickCmds, pre, burst, ticks, keys,
               last, savedEdit, editSeen, pending, cli, calc>>

\* tmp := path + ".tmp"; os.Create(tmp): O_CREAT|O_TRUNC on a name both
\* processes share
FsCreate(w) ==
    /\ fs.proc[w].pc = "idle"
    /\ fs.proc[w].saves < MaxSaves
    /\ LET fresh == fs.dir.tmp = 0
           id == IF fresh THEN Len(fs.inodes) + 1 ELSE fs.dir.tmp
       IN  fs' = [fs EXCEPT
                    !.dir.tmp = id,
                    !.inodes = IF fresh THEN Append(@, <<>>) ELSE [@ EXCEPT ![id] = <<>>],
                    !.proc[w] = [pc |-> "write", fd |-> id, off |-> 0,
                                 saves |-> fs.proc[w].saves]]
    /\ UNCHANGED otherVars

\* enc.Encode(s): File.Write repeats write(2) until the buffer is out
FsWrite(w) ==
    /\ fs.proc[w].pc = "write"
    /\ \E n \in 1..(snapLen(w) - fs.proc[w].off) :
          LET p == fs.proc[w]
              chunks == SubSeq(snapshot(w), p.off + 1, p.off + n)
          IN  fs' = [fs EXCEPT
                       !.inodes[p.fd] = writeAt(@, p.off, chunks),
                       !.proc[w].off = p.off + n,
                       !.proc[w].pc = IF p.off + n = snapLen(w) THEN "close" ELSE "write"]
    /\ UNCHANGED otherVars

\* enc.Encode fails: f.Close() and return, the temporary file stays
FsWriteFails(w) ==
    /\ fs.proc[w].pc = "write"
    /\ fs' = [fs EXCEPT !.proc[w] = [pc |-> "idle", fd |-> 0, off |-> 0,
                                     saves |-> fs.proc[w].saves + 1]]
    /\ UNCHANGED otherVars

FsClose(w) ==
    /\ fs.proc[w].pc = "close"
    /\ fs' = [fs EXCEPT !.proc[w].pc = "rename", !.proc[w].fd = 0]
    /\ UNCHANGED otherVars

\* os.Rename(tmp, path): fails when the name is gone
FsRename(w) ==
    /\ fs.proc[w].pc = "rename"
    /\ fs' = [fs EXCEPT
                !.dir = IF fs.dir.tmp = 0 THEN @ ELSE [path |-> fs.dir.tmp, tmp |-> 0],
                !.proc[w] = [pc |-> "idle", fd |-> 0, off |-> 0,
                             saves |-> fs.proc[w].saves + 1]]
    /\ UNCHANGED otherVars

\* loadStore(path) by any process: os.Open and Decode
FsLoad ==
    /\ fs' = [fs EXCEPT !.seen = decode(fs.inodes[fs.dir.path])]
    /\ UNCHANGED otherVars

----------------------------------------------------------------------------
(* The state machine *)

IdleChoices == {0, 3600}
SleepChoices == {sampleSeconds, BinSeconds, 2 * BinSeconds}

NoEdit == [none |-> TRUE]

\* a sample or an edit whose save failed: it is in memory only
NoSample == [none |-> TRUE]
NoPending == [tracker |-> NoSample, dashboard |-> NoEdit]

\* no report function has been called
NoCalc == [fn |-> "none"]

\* no command-line operation has run; afterwards: how many have run, the
\* arguments of the last one and its exit status
NoCmd == [n |-> 0, arg |-> <<>>, exit |-> 0]

\* the tag edit handleTagDialog saves on enter: the range that carries the
\* tag afterwards and the tag that enters the catalogue
editOf(mm) ==
    LET block == mm.timelineBlocks[mm.selectedTimeline + 1]
        s1 == saveTag(mm.store, block, mm.tagInput)
        idx == IF block.rangeIdx >= 0 /\ block.rangeIdx < Len(mm.store.Ranges)
               THEN block.rangeIdx + 1 ELSE Len(s1.Ranges)
    IN  [range |-> s1.Ranges[idx], tag |-> mm.tagInput]

\* the key makes handleTagDialog call saveTag and saveStore
tagSaves(mm, key) ==
    /\ mm.showTagDialog
    /\ key = "enter"
    /\ ~(mm.showingTagSuggestions /\ mm.selectedTag < Len(mm.availableTags))
    /\ mm.selectedTimeline < Len(mm.timelineBlocks)

\* the edit is in document d
editPresent(d, e) ==
    LET s == loadStore(d, FALSE).store
    IN  /\ \E i \in 1..Len(s.Ranges) : s.Ranges[i] = e.range
        /\ e.tag # <<>> => contains(s.Tags, e.tag)

trackerVars == <<store, pc, obs, pre, burst, ticks>>
dashVars == <<m, tickCmds, keys, last>>
editVars == <<savedEdit, editSeen>>

Init ==
    \E h \in Histories :
        LET r == replay([doc |-> NoFile, c |-> 0, t |-> h.t0], 0, ReplayBuckets, h)
        IN  /\ now = r.t
            /\ disk = r.doc
            /\ store = loadStore(r.doc, FALSE).store
            /\ pc = "sleep"
            /\ obs = [bin |-> floorToBin(r.t), working |-> FALSE]
            /\ m = NotRunning
            /\ tickCmds = 1
            /\ pre = NoStore
            /\ burst = {}
            /\ ticks = 0
            /\ keys = 0
            /\ last = "none"
            /\ savedEdit = NoEdit
            /\ editSeen = FALSE
            /\ fs = FsIdle
            /\ pending = NoPending
            /\ cli = NoCmd
            /\ calc = NoCalc

\* time.Sleep(sampleSeconds * time.Second); a suspended machine sleeps longer
TickSleep ==
    /\ pc = "sleep"
    /\ ticks < MaxTicks
    /\ \E d \in SleepChoices : now' = now + d
    /\ pc' = "probe"
    /\ ticks' = ticks + 1
    /\ UNCHANGED <<disk, store, obs, pre, burst, dashVars, editVars, fs, pending, cli, calc>>

TickProbeFailsRecordsIdle ==
    /\ pc = "probe"
    /\ store' = upsertBin(store, floorToBin(now), FALSE)
    /\ disk' = saveStore(store')
    /\ pc' = "sleep"
    /\ UNCHANGED <<now, obs, pre, burst, ticks, dashVars, editVars, fs, pending, cli, calc>>

\* lastActivity fails: the tick is skipped
TickProbeFails ==
    /\ pc = "probe"
    /\ pc' = "sleep"
    /\ UNCHANGED <<now, disk, store, obs, pre, burst, ticks, dashVars, editVars, fs, pending, cli, calc>>

TickProbe ==
    /\ pc = "probe"
    /\ \E idle \in IdleChoices :
          obs' = [bin |-> floorToBin(now), working |-> probeWorking(now, idle)]
    /\ pc' = "load"
    /\ UNCHANGED <<now, disk, store, pre, burst, ticks, dashVars, editVars, fs, pending, cli, calc>>

TickLoad ==
    /\ pc = "load"
    /\ \E ioerr \in BOOLEAN :
          LET r == loadStore(disk, ioerr)
          IN  /\ store' = IF r.ok THEN r.store ELSE store
              /\ editSeen' = (savedEdit # NoEdit /\ r.ok /\ editPresent(disk, savedEdit))
    /\ pc' = "upsert"
    /\ UNCHANGED <<now, disk, obs, pre, burst, ticks, dashVars, savedEdit, fs, pending, cli, calc>>

TickUpsert ==
    /\ pc = "upsert"
    /\ store' = upsertBin(store, obs.bin, obs.working)
    /\ pc' = "save"
    /\ burst' = IF obs.working THEN burst \cup {obs.bin} ELSE burst
    /\ UNCHANGED <<now, disk, obs, pre, ticks, dashVars, editVars, fs, pending, cli, calc>>

TickSave ==
    /\ pc = "save"
    /\ disk' = saveStore(store)
    /\ pc' = IF mustCompact(store) THEN "compact" ELSE "sleep"
    /\ pending' = [pending EXCEPT !.tracker = NoSample]
    /\ UNCHANGED <<now, store, obs, pre, burst, ticks, dashVars, editVars, fs, cli, calc>>

TickCompact ==
    /\ pc = "compact"
    /\ \E order \in iterOrders(DOMAIN store.Bins) :
          store' = compactBins(store, order)
    /\ pre' = store
    /\ pc' = "save2"
    /\ UNCHANGED <<now, disk, obs, burst, ticks, dashVars, editVars, fs, pending, cli, calc>>

TickSave2 ==
    /\ pc = "save2"
    /\ disk' = saveStore(store)
    /\ pc' = "sleep"
    /\ pending' = [pending EXCEPT !.tracker = NoSample]
    /\ UNCHANGED <<now, store, obs, pre, burst, ticks, dashVars, editVars, fs, cli, calc>>

Next ==
    \/ TickSleep
    \/ TickProbeFails
    \/ TickProbe
    \/ TickLoad
    \/ TickUpsert
    \/ TickSave
    \/ TickCompact
    \/ TickSave2

Spec == Init /\ [][Next]_vars

----------------------------------------------------------------------------
(* The dashboard beside the tracker *)

DashHistories ==
    {History(DaySeconds, 1, 0, FALSE, 0, 0),
     History(DaySeconds + 6 * BinSeconds, 2, 4, FALSE, 0, 5),
     History(DaySeconds, 2, 4, FALSE, 0, compactTrigger),
     History(DaySeconds, 4, 0, TRUE, 1, 3),
     History(DaySeconds - 97 * BinSeconds, 2, 0, FALSE, 1, 2)}

WindowSizes == {<<80, 24>>}

InitDash ==
    \E h \in DashHistories :
        LET r == replay([doc |-> NoFile, c |-> 0, t |-> h.t0], 0, ReplayBuckets, h)
        IN  /\ now = r.t
            /\ disk = r.doc
            /\ store = loadStore(r.doc, FALSE).store
            /\ pc = "sleep"
            /\ obs = [bin |-> floorToBin(r.t), working |-> FALSE]
            /\ m = newDashboard(loadStore(r.doc, FALSE).store, r.t)
            /\ tickCmds = 1
            /\ pre = NoStore
            /\ burst = {}
            /\ ticks = MaxTicks - DashTicks
            /\ keys = 0
            /\ last = "none"
            /\ savedEdit = NoEdit
            /\ editSeen = FALSE
            /\ fs = FsIdle
            /\ pending = NoPending
            /\ cli = NoCmd
            /\ calc = NoCalc

\* the command a handler returns: a scheduled refresh tick, or tea.Quit
afterCmd(mm, cmd) == [mm EXCEPT !.running = (cmd # "quit")]

DashKey ==
    /\ m.running
    /\ keys < MaxKeys
    /\ \E key \in Keys :
          /\ (m.showTagDialog /\ oneChar(key)) => Len(m.tagInput) < MaxTagLen
          /\ LET r == updateKey(m, key, disk, now)
             IN  /\ m' = afterCmd(r.m, r.cmd)
                 /\ disk' = r.disk
          /\ savedEdit' = IF tagSaves(m, key) THEN editOf(m) ELSE savedEdit
          /\ editSeen' = IF tagSaves(m, key) THEN FALSE ELSE editSeen
          /\ pending' = IF tagSaves(m, key) THEN [pending EXCEPT !.dashboard = NoEdit]
                        ELSE pending
    /\ keys' = keys + 1
    /\ last' = "key"
    /\ UNCHANGED <<now, trackerVars, tickCmds, fs, cli, calc>>

DashWindowSize ==
    /\ m.running
    /\ keys < MaxKeys
    /\ keys = 0
    /\ \E sz \in WindowSizes :
          /\ m' = updateWindowSize(m, sz[1], sz[2], disk).m
    /\ keys' = keys + 1
    /\ last' = "size"
    /\ UNCHANGED <<now, disk, trackerVars, tickCmds, editVars, fs, pending, cli, calc>>

DashTick ==
    /\ m.running
    /\ keys < MaxKeys
    /\ tickCmds > 0
    /\ \E ioerr \in BOOLEAN :
          LET r == updateTick(m, disk, now, ioerr)
          IN  /\ m' = afterCmd(r.m, r.cmd)
              /\ tickCmds' = (tickCmds - 1) + (IF r.cmd = "tick" THEN 1 ELSE 0)
    /\ keys' = keys + 1
    /\ last' = "tick"
    /\ UNCHANGED <<now, disk, trackerVars, editVars, fs, pending, cli, calc>>

NextDash ==
    \/ Next
    \/ DashKey
    \/ DashWindowSize
    \/ DashTick

SpecDash == InitDash /\ [][NextDash]_vars

\* The dashboard late in the evening: the tracker has sampled the last
\* hundred buckets of 2 January 1970, the last of them at 23:56, and the
\* dashboard shows that day
NightHistories ==
    {History(2 * DaySeconds - compactTrigger * BinSeconds, 2, 0, FALSE, 0, compactTrigger)}

InitNight ==
    \E h \in NightHistories :
        LET r == replay([doc |-> NoFile, c |-> 0, t |-> h.t0], 0, ReplayBuckets, h)
        IN  /\ now = r.t
            /\ disk = r.doc
            /\ store = loadStore(r.doc, FALSE).store
            /\ pc = "sleep"
            /\ obs = [bin |-> floorToBin(r.t), working |-> FALSE]
            /\ m = newDashboard(loadStore(r.doc, FALSE).store, r.t)
            /\ tickCmds = 1
            /\ pre = NoStore
            /\ burst = {}
            /\ ticks = MaxTicks - DashTicks
            /\ keys = 0
            /\ last = "none"
            /\ savedEdit = NoEdit
            /\ editSeen = FALSE
            /\ fs = FsIdle
            /\ pending = NoPending
            /\ cli = NoCmd
            /\ calc = NoCalc

SpecNight == InitNight /\ [][NextDash]_vars

----------------------------------------------------------------------------
(* Two concurrent saves and a load *)

\* the document the two processes share when the saves begin
FsHistory == History(DaySeconds + 6 * BinSeconds, 2, 4, FALSE, 0, 5)

InitFS ==
    LET r == replay([doc |-> NoFile, c |-> 0, t |-> FsHistory.t0], 0, ReplayBuckets, FsHistory)
    IN  /\ now = r.t
        /\ disk = r.doc
        /\ store = loadStore(r.doc, FALSE).store
        /\ pc = "sleep"
        /\ obs = [bin |-> floorToBin(r.t), working |-> FALSE]
        /\ m = newDashboard(loadStore(r.doc, FALSE).store, r.t)
        /\ tickCmds = 1
        /\ pre = NoStore
        /\ burst = {}
        /\ ticks = 0
        /\ keys = 0
        /\ last = "none"
        /\ savedEdit = NoEdit
        /\ editSeen = FALSE
        /\ fs = FsIdle
        /\ pending = NoPending
        /\ cli = NoCmd
        /\ calc = NoCalc

NextFS ==
    \/ \E w \in Writers : FsCreate(w)
    \/ \E w \in Writers : FsWrite(w)
    \/ \E w \in Writers : FsWriteFails(w)
    \/ \E w \in Writers : FsClose(w)
    \/ \E w \in Writers : FsRename(w)
    \/ FsLoad

SpecFS == InitFS /\ [][NextFS]_vars

----------------------------------------------------------------------------
(* Saves that fail *)

\* the tracker alone for two ticks on a document about to be compacted, or
\* the tracker for one tick beside a running dashboard
ErrStarts ==
    {[h |-> History(DaySeconds, 2, 4, FALSE, 0, compactTrigger), dash |-> FALSE],
     [h |-> History(DaySeconds + 6 * BinSeconds, 2, 4, FALSE, 0, 5), dash |-> TRUE]}

InitErr ==
    \E c \in ErrStarts :
        LET r == replay([doc |-> NoFile, c |-> 0, t |-> c.h.t0], 0, ReplayBuckets, c.h)
        IN  /\ now = r.t
            /\ disk = r.doc
            /\ store = loadStore(r.doc, FALSE).store
            /\ pc = "sleep"
            /\ obs = [bin |-> floorToBin(r.t), working |-> FALSE]
            /\ m = IF c.dash THEN newDashboard(loadStore(r.doc, FALSE).store, r.t)
                   ELSE NotRunning
            /\ tickCmds = 1
            /\ pre = NoStore
            /\ burst = {}
            /\ ticks = IF c.dash THEN MaxTicks - DashTicks ELSE 0
            /\ keys = 0
            /\ last = "none"
            /\ savedEdit = NoEdit
            /\ editSeen = FALSE
            /\ fs = FsIdle
            /\ pending = NoPending
            /\ cli = NoCmd
            /\ calc = NoCalc

\* the sample of this tick as the store holds it
sampleOf(s, bin) == [bin |-> bin, status |-> s.Bins[FormatInt(bin)]]

TickSaveFailsStops ==
    /\ pc = "save"
    /\ pc' = "exit"
    /\ pending' = [pending EXCEPT !.tracker = sampleOf(store, obs.bin)]
    /\ UNCHANGED <<now, disk, store, obs, pre, burst, ticks, dashVars, editVars, fs, cli, calc>>

\* _ = saveStore(*file, store) returns an error: the loop goes on
TickSaveFails ==
    /\ pc = "save"
    /\ pc' = IF mustCompact(store) THEN "compact" ELSE "sleep"
    /\ pending' = [pending EXCEPT !.tracker = sampleOf(store, obs.bin)]
    /\ UNCHANGED <<now, disk, store, obs, pre, burst, ticks, dashVars, editVars, fs, cli, calc>>

\* the save after compactBins returns an error
TickSave2Fails ==
    /\ pc = "save2"
    /\ pc' = "sleep"
    /\ UNCHANGED <<now, disk, store, obs, pre, burst, ticks, dashVars, editVars, fs,
                   pending, cli, calc>>

\* enter in the tag dialog when saveStore(m.filePath, m.store) returns an
\* error: the handler does not look at it
DashKeySaveFails ==
    /\ m.running
    /\ keys < MaxKeys
    /\ tagSaves(m, "enter")
    /\ m' = afterCmd(updateKey(m, "enter", disk, now).m, "none")
    /\ pending' = [pending EXCEPT !.dashboard = editOf(m)]
    /\ keys' = keys + 1
    /\ last' = "key"
    /\ UNCHANGED <<now, disk, trackerVars, tickCmds, editVars, fs, cli, calc>>

NextErr ==
    \/ NextDash
    \/ TickSaveFails
    \/ TickSave2Fails
    \/ DashKeySaveFails

SpecErr == InitErr /\ [][NextErr]_vars

\* The sampling loop is the only thread of its process: time.Sleep returns,
\* and the probe, the load and the saves return with or without an error,
\* so a step of the loop that can be taken is taken.
TrackerStep ==
    \/ TickSleep
    \/ TickProbeFails
    \/ TickProbe
    \/ TickLoad
    \/ TickUpsert
    \/ TickSave
    \/ TickSaveFails
    \/ TickSave2
    \/ TickSave2Fails

\* compactBins returns: its loops run over a finite slice.  The step from
\* compact to save2 is TickCompact's and no other action's.
CompactReturns == pc = "compact" /\ pc' = "save2"

SpecLive ==
    InitErr /\ [][NextErr]_vars /\ WF_vars(TrackerStep) /\ WF_pc(CompactReturns)

----------------------------------------------------------------------------
(* The command line beside the tracker, and an unparseable document *)

\* the document is missing, or the tracker has written five samples
CfgHistories ==
    {History(DaySeconds, 2, 4, FALSE, 0, 0),
     History(DaySeconds, 2, 4, FALSE, 0, 5)}

InitCfg ==
    \E h \in CfgHistories :
        LET r == replay([doc |-> NoFile, c |-> 0, t |-> h.t0], 0, ReplayBuckets, h)
        IN  /\ now = r.t
            /\ disk = r.doc
            /\ store = loadStore(r.doc, FALSE).store
            /\ pc = "sleep"
            /\ obs = [bin |-> floorToBin(r.t), working |-> FALSE]
            /\ m = NotRunning
            /\ tickCmds = 1
            /\ pre = NoStore
            /\ burst = {}
            /\ ticks = MaxTicks - CfgTicks
            /\ keys = 0
            /\ last = "none"
            /\ savedEdit = NoEdit
            /\ editSeen = FALSE
            /\ fs = FsIdle
            /\ pending = NoPending
            /\ cli = NoCmd
            /\ calc = NoCalc

\* timetrackcli -config arg: a process of its own that loads, changes the
\* configuration and saves
ConfigCmd ==
    /\ cli.n < MaxCmds
    /\ \E arg \in ConfigArgs, ioerr \in BOOLEAN, saveErr \in BOOLEAN :
          LET o == configCmd(disk, arg, ioerr, saveErr)
          IN  /\ disk' = o.disk
              /\ cli' = [n |-> cli.n + 1, arg |-> arg, exit |-> o.exit]
    /\ UNCHANGED <<now, trackerVars, dashVars, editVars, fs, pending, calc>>

ArgReport == <<"-", "r", "e", "p", "o", "r", "t">>

\* timetrackcli -report: loads the document, prints, and writes nothing
ReportCmd ==
    /\ cli.n < MaxCmds
    /\ \E ioerr \in BOOLEAN :
          cli' = [n |-> cli.n + 1, arg |-> ArgReport,
                  exit |-> IF loadStore(disk, ioerr).ok THEN 0 ELSE 1]
    /\ UNCHANGED <<now, disk, trackerVars, dashVars, editVars, fs, pending, calc>>

ArgDashboard == <<"-", "d", "a", "s", "h", "b", "o", "a", "r", "d">>

\* timetrackcli -dashboard: loads the document and builds the timeline, or
\* exits when the load fails
DashboardCmd ==
    /\ cli.n < MaxCmds
    /\ ~m.running
    /\ \E ioerr \in BOOLEAN :
          LET r == loadStore(disk, ioerr)
          IN  /\ cli' = [n |-> cli.n + 1, arg |-> ArgDashboard,
                         exit |-> IF r.ok THEN 0 ELSE 1]
              /\ m' = IF r.ok THEN newDashboard(r.store, now) ELSE m
    /\ UNCHANGED <<now, disk, trackerVars, tickCmds, keys, last, editVars, fs, pending, calc>>

\* the document is replaced by one that is not JSON (a torn write, an edit
\* by hand) while the tracker sleeps
DocCorrupted ==
    /\ pc = "sleep"
    /\ disk # Malformed
    /\ disk' = Malformed
    /\ UNCHANGED <<now, trackerVars, dashVars, editVars, fs, pending, cli, calc>>

NextCfg ==
    \/ TickSleep
    \/ TickProbeFails
    \/ TickProbe
    \/ TickLoad
    \/ TickUpsert
    \/ TickSave
    \/ ConfigCmd
    \/ ReportCmd
    \/ DashboardCmd
    \/ DocCorrupted

SpecCfg == InitCfg /\ [][NextCfg]_vars

----------------------------------------------------------------------------
(* The report functions called on their own *)

calcRest == <<now, disk, trackerVars, dashVars, editVars, fs, pending, cli>>

\* nothing runs but the calls: the document is missing
InitCalc ==
    /\ now = DaySeconds
    /\ disk = NoFile
    /\ store = loadStore(NoFile, FALSE).store
    /\ pc = "sleep"
    /\ obs = [bin |-> floorToBin(DaySeconds), working |-> FALSE]
    /\ m = NotRunning
    /\ tickCmds = 1
    /\ pre = NoStore
    /\ burst = {}
    /\ ticks = 0
    /\ keys = 0
    /\ last = "none"
    /\ savedEdit = NoEdit
    /\ editSeen = FALSE
    /\ fs = FsIdle
    /\ pending = NoPending
    /\ cli = NoCmd
    /\ calc = NoCalc

WorkedChoices == {0, 1, 5, 240, 479, 480, 485, 960, 1440}
GoalChoices == {0, 1, 7, 450, 480, 2400}

CalcPercentage ==
    /\ calc = NoCalc
    /\ \E workMins \in WorkedChoices, goalMins \in GoalChoices :
          calc' = [fn |-> "formatPercentage", in |-> <<workMins, goalMins>>,
                   out |-> formatPercentage(workMins, goalMins)]
    /\ UNCHANGED calcRest

\* instants of two weeks: midnight, noon and the last second of each day
DayInstants == {d * DaySeconds + o : d \in 0..13, o \in {0, 43200, DaySeconds - 1}}

\* workday lists the config command writes
WorkDayLists ==
    {<<1, 2, 3, 4, 5>>, <<6, 7>>, <<1, 3, 5>>, <<5, 3, 1>>, <<1, 1, 3, 5, 5>>, <<7>>,
     <<1, 2, 3, 4, 5, 6, 7>>}

CalcWorkDay ==
    /\ calc = NoCalc
    /\ \E t \in DayInstants, workDays \in WorkDayLists :
          calc' = [fn |-> "isWorkDay", in |-> <<t, workDays>>,
                   out |-> isWorkDay(t, workDays)]
    /\ UNCHANGED calcRest

\* Thursday 1 January 1970, Saturday 28 February 1970, Wednesday 15 April
\* 1970, Friday 31 December 1971, Tuesday 29 February 1972, Sunday
\* 31 December 1972, each at 12:00 UTC
ReportInstants ==
    {d * DaySeconds + 43200 : d \in {0, 58, 104, 729, 789, 1095}}

ReportRanges == {"week", "month", "year"}

\* daily goals the config command writes
DailyGoals == {480, 450}

CalcPeriodGoal ==
    /\ calc = NoCalc
    /\ \E loc \in Locations, t \in ReportInstants, workDays \in WorkDayLists,
          goal \in DailyGoals :
          LET cfg == [DailyGoalMinutes |-> goal, WorkDays |-> workDays]
          IN  calc' = [fn |-> "periodGoal", in |-> <<loc, t, cfg>>,
                       out |-> [report |-> [rng \in ReportRanges |->
                                               reportGoal(loc, cfg, rng, t)],
                                dashboard |-> calculatePeriodProgress(loc, cfg, t)]]
    /\ UNCHANGED calcRest

\* instants around the hour and the day boundaries of 2 January 1970 and of
\* 25 October 1970, the day New York's clocks go back at 06:00 UTC
BucketInstants ==
    {d * DaySeconds + h * 3600 + mi * 60 + sec :
        d \in {1, 297}, h \in {5, 6, 23}, mi \in {0, 4, 5, 9, 30, 55, 59}, sec \in {0, 1, 30, 59}}

CalcBucket ==
    /\ calc = NoCalc
    /\ \E loc \in Locations, t \in BucketInstants :
          calc' = [fn |-> "floorToBin", in |-> <<loc, t>>,
                   out |-> [floor |-> floorToBinIn(loc, t),
                            again |-> floorToBinIn(loc, floorToBinIn(loc, t)),
                            next |-> nextBinStartIn(loc, t)]]
    /\ UNCHANGED calcRest

\* documents for the best / worst box: none, idle samples only, two days
\* of raw samples, two days of which the first is compacted, one day
BestWorstHistories ==
    {History(DaySeconds, 1, 0, FALSE, 0, 0),
     History(DaySeconds, 4, 0, FALSE, 0, 5),
     History(DaySeconds - 40 * BinSeconds, 2, 0, FALSE, 0, compactTrigger),
     History(DaySeconds - 97 * BinSeconds, 2, 0, FALSE, 1, 2),
     History(DaySeconds, 3, 0, FALSE, 0, compactTrigger - 1)}

\* the days from the document's last tick to the dashboard's frame
DaysLater == {0, 1, 28, 29, 30}

CalcBestWorst ==
    /\ calc = NoCalc
    /\ \E h \in BestWorstHistories, later \in DaysLater :
          LET r == replay([doc |-> NoFile, c |-> 0, t |-> h.t0], 0, ReplayBuckets, h)
              s == loadStore(r.doc, FALSE).store
              t == r.t + later * DaySeconds
          IN  calc' = [fn |-> "findBestWorstDays", in |-> <<s, t>>,
                       out |-> bestWorstBox(findBestWorstDays(s, t))]
    /\ UNCHANGED calcRest

\* documents for compactBins: one sample short of the least number it
\* compacts and exactly that number, each with and without ranges of an
\* earlier pass, and more samples than that after an earlier pass
CompactHistories ==
    {History(DaySeconds, 2, 0, FALSE, 0, compactMinBins - 1),
     History(DaySeconds, 2, 0, FALSE, 0, compactMinBins),
     History(DaySeconds - 97 * BinSeconds, 2, 0, FALSE, 1, compactMinBins - 1),
     History(DaySeconds - 97 * BinSeconds, 2, 0, FALSE, 1, compactMinBins),
     History(DaySeconds - 97 * BinSeconds, 3, 0, FALSE, 1, compactMinBins + 2)}

\* what the user's commands leave in a document beside the tracker's data:
\* a goal set by --config and a tag saved on the first range
userEdited(s) ==
    LET s1 == [s EXCEPT !.Config.DailyGoalMinutes = 300]
    IN  IF Len(s.Ranges) = 0 THEN s1
        ELSE [s1 EXCEPT !.Ranges[1].Tag = <<106>>, !.Tags = << <<106>> >>]

CalcCompact ==
    /\ calc = NoCalc
    /\ \E h \in CompactHistories, edited \in BOOLEAN :
          LET r == replay([doc |-> NoFile, c |-> 0, t |-> h.t0], 0, ReplayBuckets, h)
              s0 == loadStore(r.doc, FALSE).store
              s == IF edited THEN userEdited(s0) ELSE s0
          IN  \E order \in iterOrders(DOMAIN s.Bins) \cup {keysAscending(DOMAIN s.Bins)} :
                 calc' = [fn |-> "compactBins", in |-> <<s, order>>,
                          out |-> compactBins(s, order)]
    /\ UNCHANGED calcRest

\* documents for the tag dialog: raw samples only, and ranges of a
\* compaction pass that reach into the dashboard's day before raw samples
TagSaveHistories ==
    {History(DaySeconds, 4, 0, FALSE, 0, 5),
     History(DaySeconds - 97 * BinSeconds, 2, 0, FALSE, 1, 2)}

\* the keys of the words typed, here the words of one and of two keys that
\* meet every order between a saved and a typed word
TagWords == {<<"a">>, <<"j">>, <<"j", "a">>, <<"q">>}

\* the catalogues earlier tag saves leave: each save appended its word
\* and sorted
Catalogues ==
    {<<>>, << <<106>> >>, << <<97>>, <<106, 97>> >>, << <<106>>, <<113>> >>,
     << <<97>>, <<106>>, <<113>> >>}

\* handleTagDialog for each key of word in turn
RECURSIVE typeWord(_, _, _, _)
typeWord(mm, word, d, t) ==
    IF Len(word) = 0 THEN mm
    ELSE typeWord(handleTagDialog(mm, Head(word), d, t).m, Tail(word), d, t)

\* a store whose last range carries the first word of catalogue cat
withCatalogue(s, cat) ==
    IF Len(cat) = 0 \/ Len(s.Ranges) = 0 THEN [s EXCEPT !.Tags = cat]
    ELSE [s EXCEPT !.Tags = cat, !.Ranges[Len(s.Ranges)].Tag = cat[1]]

CalcTagSave ==
    /\ calc = NoCalc
    /\ \E h \in TagSaveHistories :
       \E r \in {replay([doc |-> NoFile, c |-> 0, t |-> h.t0], 0, ReplayBuckets, h)} :
       \E cat \in Catalogues, word \in TagWords \cup {<<>>}, atEnd \in BOOLEAN :
       \E s \in {withCatalogue(loadStore(r.doc, FALSE).store, cat)} :
       \E mm0 \in {newDashboard(s, r.t)} :
          LET mm1 == IF atEnd
                     THEN [mm0 EXCEPT !.selectedTimeline = Len(mm0.timelineBlocks) - 1]
                     ELSE mm0
              mm2 == typeWord(updateKey(mm1, "enter", saveStore(s), r.t).m, word,
                              saveStore(s), r.t)
              res == handleTagDialog(mm2, "enter", saveStore(s), r.t)
          IN  calc' = [fn |-> "handleTagDialog", in |-> mm2, out |-> res.m,
                       doc |-> res.disk]
    /\ UNCHANGED calcRest

NextCalc ==
    \/ CalcPercentage
    \/ CalcWorkDay
    \/ CalcPeriodGoal
    \/ CalcBucket
    \/ CalcBestWorst
    \/ CalcCompact
    \/ CalcTagSave

SpecCalc == InitCalc /\ [][NextCalc]_vars

----------------------------------------------------------------------------
(* Properties *)

\* windows [start, end) the resolver is asked for: everything, today up to
\* now, and a window around the tracker's current bucket whose bounds are
\* not on the bucket grid
Windows ==
    {<<0, 3 * DaySeconds>>,
     <<Midnight(now), now>>,
     <<obs.bin - BinSeconds - 1, obs.bin + 1>>}

rawSamples(s) == {<<ParseInt(k), s.Bins[k]>> : k \in DOMAIN s.Bins}

\* the ranges a compaction pass appended: pre is the store it was given
appended == SubSeq(store.Ranges, Len(pre.Ranges) + 1, Len(store.Ranges))

compacted == pc = "save2"

\* C1: the window resolver returns the same per-bucket status map right
\* before and right after a compaction pass that runs, for every window.
C1_CompactionLossless ==
    compacted =>
        \A w \in Windows : fetchBins(pre, w[1], w[2]) = fetchBins(store, w[1], w[2])

\* C2: a bucket of the window that has a raw sample and is covered by a
\* range resolves to the raw sample's status.
C2_RawWins ==
    \A w \in Windows :
        LET res == fetchBins(store, w[1], w[2])
        IN  \A p \in rawSamples(store) :
                (/\ ~(p[1] < w[1]) /\ p[1] < w[2]
                 /\ \E i \in 1..Len(store.Ranges) : covers(store.Ranges[i], p[1]))
                => (p[1] \in DOMAIN res /\ res[p[1]] = p[2])

\* C3: an upsert leaves the bucket working exactly when it was working or
\* the call observed working; an idle observation creates an idle sample
\* when there is none and changes nothing when there is one; no other
\* sample and nothing else of the store changes.
C3_StickyPromotion ==
    [][(pc = "upsert" /\ pc' = "save") =>
        LET k == FormatInt(obs.bin)
            was == HasBin(store, k) /\ store.Bins[k] = 1
        IN  /\ HasBin(store', k)
            /\ (store'.Bins[k] = 1) <=> (was \/ obs.working)
            /\ store'.Bins[k] \in {0, 1}
            /\ (~obs.working /\ HasBin(store, k)) => store' = store
            /\ DOMAIN store'.Bins = DOMAIN store.Bins \cup {k}
            /\ \A x \in DOMAIN store.Bins \ {k} : store'.Bins[x] = store.Bins[x]
            /\ store'.Ranges = store.Ranges
            /\ store'.Config = store.Config
            /\ store'.Tags = store.Tags]_vars

\* an idle sample on disk was promoted by a later tick in the same bucket
C3_Witness ==
    /\ pc = "save"
    /\ obs.working
    /\ HasBin(disk, FormatInt(obs.bin))
    /\ disk.Bins[FormatInt(obs.bin)] = 0
    /\ store.Bins[FormatInt(obs.bin)] = 1

resolvesWorking(s, b) ==
    LET res == fetchBins(s, b, b + BinSeconds)
    IN  b \in DOMAIN res /\ res[b] = 1

\* C4: once a tick has observed working in bucket b, b resolves to working
\* after every completed tick.
C4_BurstCountsBucket ==
    pc = "sleep" => \A b \in burst : resolvesWorking(store, b)

sampled(s, t, v) == <<t, v>> \in rawSamples(s)

\* C5: the ranges a compaction pass appends are exactly the maximal runs of
\* the raw samples: each is a whole number (at least one) of consecutive
\* sampled buckets of its status, is not continued by a sample of that
\* status one bucket before or after, every sample lies in exactly one of
\* them, they are emitted in ascending order, and every iteration order of
\* the map gives the same store.
C5_RunBoundaries ==
    compacted =>
        /\ \A i \in 1..Len(appended) :
              LET r == appended[i]
              IN  /\ r.End - r.Start >= BinSeconds
                  /\ (r.End - r.Start) % BinSeconds = 0
                  /\ \A j \in 0..((r.End - r.Start) \div BinSeconds - 1) :
                        sampled(pre, r.Start + j * BinSeconds, r.Status)
                  /\ ~sampled(pre, r.Start - BinSeconds, r.Status)
                  /\ ~sampled(pre, r.End, r.Status)
                  /\ r.Tag = <<>> /\ r.Note = <<>>
                  /\ i > 1 => appended[i - 1].Start < r.Start
        /\ \A p \in rawSamples(pre) :
              Cardinality({i \in 1..Len(appended) : covers(appended[i], p[1])}) = 1
        /\ \A o \in iterOrders(DOMAIN pre.Bins) : compactBins(pre, o) = store

\* a pass that met a run of one bucket, a longer run, and two runs of the
\* same status separated by a gap
C5_Witness ==
    /\ compacted
    /\ \E i \in 1..Len(appended) : appended[i].End - appended[i].Start = BinSeconds
    /\ \E i \in 1..Len(appended) : appended[i].End - appended[i].Start > BinSeconds
    /\ \E i \in 1..(Len(appended) - 1) :
          /\ appended[i].Status = appended[i + 1].Status
          /\ appended[i].End < appended[i + 1].Start

cells(r) == {<<r.Start + j * BinSeconds, r.Status>> :
                j \in 0..((r.End - r.Start) \div BinSeconds - 1)}

\* C6: after a compaction pass that runs no raw sample is left, and the
\* (bucket, status) pairs the appended ranges cover are exactly the raw
\* samples the pass was given.
C6_TransfersExactly ==
    compacted =>
        /\ DOMAIN store.Bins = {}
        /\ UNION {cells(appended[i]) : i \in 1..Len(appended)} = rawSamples(pre)
        /\ \A i \in 1..Len(appended) :
              (appended[i].End - appended[i].Start) % BinSeconds = 0

\* a pass over samples of both statuses with an unsampled bucket between them
C6_Witness ==
    /\ compacted
    /\ \E p, q \in rawSamples(pre) :
          /\ p[2] = 0 /\ q[2] = 1
          /\ p[1] < q[1]
          /\ \E t \in {p[1] + j * BinSeconds : j \in 1..3} :
                t < q[1] /\ ~sampled(pre, t, 0) /\ ~sampled(pre, t, 1)

blocksOf(mm) == mm.timelineBlocks

\* the buckets of today's window [midnight, now)
grid(t) == {Midnight(t) + j * BinSeconds : j \in 0..((floorToBin(t) - Midnight(t)) \div BinSeconds - 1)}

hasData(s, b) ==
    \/ HasBin(s, FormatInt(b))
    \/ \E i \in 1..Len(s.Ranges) : covers(s.Ranges[i], b)

\* the blocks are a partition of [first start, last end) into blocks of
\* alternating status
partitions(blocks) ==
    /\ \A i \in 1..Len(blocks) : blocks[i].start < blocks[i].end
    /\ \A i \in 1..(Len(blocks) - 1) :
          /\ blocks[i].end = blocks[i + 1].start
          /\ blocks[i].status # blocks[i + 1].status

\* C7: for today's window the resolved daily sequence has exactly one status
\* for every bucket of [floor(midnight), floor(now)), ascending and without
\* repetition; a bucket without data is idle; the merged timeline blocks
\* start at midnight, end at floor(now), are contiguous and non-overlapping,
\* each carries the status of all its buckets, and adjacent blocks differ in
\* status. Checked for the dashboard's store at the current instant and for
\* the blocks the dashboard holds.
C7_GridComplete ==
    m.running =>
        LET s == m.store
            seq == daySeq(now)
            status == dayStatus(s, now)
            blocks == timelineOf(s, now)
            tot == todayTotals(s, now)
            held == blocksOf(m)
        IN  /\ {seq[i] : i \in 1..Len(seq)} = grid(now)
            /\ Len(seq) = Cardinality(grid(now))
            /\ \A i \in 1..(Len(seq) - 1) : seq[i] < seq[i + 1]
            /\ \A b \in grid(now) : b \in DOMAIN status /\ status[b] \in {0, 1}
            /\ \A b \in grid(now) : ~hasData(s, b) => status[b] = 0
            /\ tot.workMins + tot.idleMins = binMinutes * Cardinality(grid(now))
            /\ (Len(blocks) = 0) <=> (grid(now) = {})
            /\ Len(blocks) > 0 =>
                  /\ blocks[1].start = Midnight(now)
                  /\ blocks[Len(blocks)].end = floorToBin(now)
            /\ \A i \in 1..Len(blocks) :
                  \A b \in grid(now) :
                      (~(b < blocks[i].start) /\ b < blocks[i].end)
                      => status[b] = blocks[i].status
            /\ partitions(blocks)
            /\ Len(held) > 0 => held[1].start = Midnight(held[1].start)
            /\ partitions(held)

\* a dashboard that reloaded after the tracker's tick: its day has working
\* and idle blocks and a bucket that is idle only because it has no data
C7_Witness ==
    /\ m.running
    /\ last = "tick"
    /\ ticks = MaxTicks
    /\ HasBin(m.store, FormatInt(obs.bin))
    /\ blocksOf(m) = timelineOf(m.store, now)
    /\ Len(blocksOf(m)) > 2
    /\ \E b \in grid(now) : ~hasData(m.store, b)
    /\ \E b \in grid(now) : hasData(m.store, b) /\ dayStatus(m.store, now)[b] = 1

\* C8: whatever the interleaving of the two saves, a load reads the complete
\* previous document or one writer's complete snapshot.
C8_AtomicReplace ==
    fs.seen.kind \in {"none", "complete"}

C10_ReloadGating ==
    [][(last' = "tick" /\ keys' = keys + 1) =>
        /\ m.showTagDialog =>
              /\ m'.store = m.store
              /\ m'.timelineBlocks = m.timelineBlocks
              /\ m'.tagInput = m.tagInput
              /\ m'.showTagDialog
        /\ ~m.showTagDialog =>
              \/ /\ m'.store = loadStore(disk, FALSE).store
                 /\ m'.timelineBlocks = timelineOf(m'.store, now)
              \/ m' = m
        /\ m'.running
        /\ tickCmds' = tickCmds
        /\ tickCmds' > 0]_vars

\* a tick arrived while a tag was being typed and the document had changed
C10_Witness ==
    /\ last = "tick"
    /\ m.showTagDialog
    /\ Len(m.tagInput) > 0
    /\ m.store # loadStore(disk, FALSE).store

\* the sample is in store s: its bucket has a raw sample or a covering range,
\* working if the sample was
samplePresent(s, p) ==
    \/ /\ HasBin(s, FormatInt(p.bin))
       /\ ~(s.Bins[FormatInt(p.bin)] < p.status)
    \/ \E i \in 1..Len(s.Ranges) :
          /\ covers(s.Ranges[i], p.bin)
          /\ ~(s.Ranges[i].Status < p.status)

\* C11: when a save has failed, the mutation made before it (the tracker's
\* sample, the dashboard's tag edit) is still in the process's in-memory
\* store when the process next attempts a save.
C11_FailedSaveRetained ==
    /\ (pc \in {"save", "save2"} /\ pending.tracker # NoSample) =>
          samplePresent(store, pending.tracker)
    /\ (m.running /\ tagSaves(m, "enter") /\ pending.dashboard # NoEdit) =>
          editPresent(m.store, pending.dashboard)

\* C12: an operation whose load finds the document unparseable (a config
\* update, a report, a dashboard start, a sampling tick) exits with an error
\* or ends without writing: the unparseable document is not overwritten.
C12_MalformedIsFatal ==
    [][disk = Malformed =>
          /\ cli'.n # cli.n => (cli'.exit # 0 /\ disk' = disk /\ m' = m)
          /\ (pc \in {"load", "upsert", "save"} /\ pc' # pc) => disk' = disk]_vars

\* C13: a sampling tick whose activity probe fails records nothing: the
\* in-memory store and the persisted document are unchanged (no load, no
\* upsert, no save, no compaction) and the loop is at its sleep again.
C13_ProbeFailureSkips ==
    [][(pc = "probe" /\ pc' = "sleep") =>
          /\ store' = store
          /\ disk' = disk
          /\ pre' = pre
          /\ burst' = burst
          /\ obs' = obs
          /\ pending' = pending]_vars

\* a tick in a new bucket has ended and the bucket has no sample, in memory
\* or in the document
C13_Witness ==
    /\ pc = "sleep"
    /\ ticks > 0
    /\ disk # NoFile
    /\ ~hasData(store, floorToBin(now))
    /\ ~hasData(loadStore(disk, FALSE).store, floorToBin(now))

\* C14: a config command whose argument has no = separator, an unknown key,
\* a time that is not HH:MM with integer parts, or a workday token that is
\* no day name, exits with an error and leaves the persisted document as it
\* was.
C14_InvalidConfigRejected ==
    [][(cli'.n # cli.n /\ cli'.arg \in InvalidArgs) =>
          (cli'.exit = 1 /\ disk' = disk)]_vars

\* a command with a malformed time, and one with an unknown day, has run on
\* a document that loads, after a command that changed the configuration
C14_Witness ==
    /\ cli.n = MaxCmds
    /\ cli.arg \in BadTimeArgs \cup BadDayArgs
    /\ cli.exit = 1
    /\ disk \notin {NoFile, Malformed}
    /\ disk.Config.DailyGoalMinutes # defaultGoalMinutes

\* what a load of document d must return: for a missing document the empty
\* store with a goal of 480 minutes and workdays 1..5; for an existing one
\* the document with the same defaults in place of a zero goal and of an
\* empty workday list
loaded(d) ==
    IF d = NoFile
    THEN [Bins |-> <<>>, Ranges |-> <<>>, Tags |-> <<>>,
          Config |-> [DailyGoalMinutes |-> 480, WorkDays |-> <<1, 2, 3, 4, 5>>]]
    ELSE [Bins |-> d.Bins, Ranges |-> d.Ranges, Tags |-> d.Tags,
          Config |-> [DailyGoalMinutes |-> IF d.Config.DailyGoalMinutes = 0 THEN 480
                                           ELSE d.Config.DailyGoalMinutes,
                      WorkDays |-> IF d.Config.WorkDays = <<>> THEN <<1, 2, 3, 4, 5>>
                                   ELSE d.Config.WorkDays]]

\* C15: loading a missing document succeeds with the empty default store
\* (goal 480, workdays 1..5); loading an existing document fills the same
\* defaults in for a zero goal and an empty workday list and changes
\* nothing else.  The store a sampling tick holds after its load is that
\* store, or the one it held when the load failed.
C15_MissingDocumentDefaults ==
    [][/\ disk # Malformed =>
             loadStore(disk, FALSE) = [ok |-> TRUE, store |-> loaded(disk)]
       /\ (pc = "load" /\ pc' = "upsert" /\ disk # Malformed) =>
             (store' = loaded(disk) \/ store' = store)]_vars

\* a tick has loaded a document with samples whose workday list is empty
\* and whose goal is not the default
C15_Witness ==
    /\ pc = "upsert"
    /\ disk \notin {NoFile, Malformed}
    /\ disk.Config.DailyGoalMinutes \notin {0, 480}
    /\ disk.Config.WorkDays = <<>>
    /\ disk.Bins # <<>>
    /\ store = loaded(disk)
    /\ store.Config.WorkDays = <<1, 2, 3, 4, 5>>

\* the sum of the values of a map from tags to minutes
RECURSIVE sumOver(_, _)
sumOver(f, keySet) ==
    IF keySet = {} THEN 0
    ELSE LET k == CHOOSE x \in keySet : TRUE
         IN  f[k] + sumOver(f, keySet \ {k})

\* the period's working minutes as the window resolver gives them
workingMinutes(s, period, t) ==
    LET p == periodOf(period, t)
        bins == fetchBins(s, p.start, p.end)
    IN  binMinutes * Cardinality({b \in DOMAIN bins : bins[b] = 1})

\* the stores the analytics are computed on: the persisted document as a
\* report loads it, and the store the dashboard holds
analysed ==
    (IF disk \in {NoFile, Malformed} THEN {} ELSE {loadStore(disk, FALSE).store})
    \cup (IF m.running THEN {m.store} ELSE {})

\* C16: for every period the minutes calculateTagHours returns, summed over
\* all tags and "(untagged)", are the period's working minutes as resolved
\* per bucket by fetchBins: no bucket is counted twice.
C16_NoDoubleCount ==
    \A s \in analysed : \A period \in Periods :
        LET tagHours == calculateTagHours(s, period, now)
        IN  sumOver(tagHours, DOMAIN tagHours) = workingMinutes(s, period, now)

\* the minutes of the intersection of range r with [start, end): five for
\* each of its buckets inside the period; nothing for an idle range
clipped(r, start, end) ==
    IF r.Status # 1 THEN 0
    ELSE binMinutes * Cardinality({c \in cells(r) : ~(c[1] < start) /\ c[1] < end})

RECURSIVE clippedSum(_, _, _, _)
clippedSum(s, idxs, start, end) ==
    IF idxs = {} THEN 0
    ELSE LET i == CHOOSE x \in idxs : TRUE
         IN  clipped(s.Ranges[i], start, end) + clippedSum(s, idxs \ {i}, start, end)

\* working raw samples of the period that no range covers
uncoveredWorking(s, start, end) ==
    {k \in DOMAIN s.Bins :
        /\ s.Bins[k] = 1
        /\ ~(ParseInt(k) < start) /\ ParseInt(k) < end
        /\ ~hasData([s EXCEPT !.Bins = <<>>], ParseInt(k))}

\* C17: in calculateTagHours every working range that overlaps the period
\* contributes to its tag, or to "(untagged)" without one, exactly the
\* minutes of its intersection with the period; idle ranges and ranges
\* outside the period contribute nothing.
C17_TagClipping ==
    \A s \in analysed : \A period \in Periods :
        LET p == periodOf(period, now)
            tagHours == calculateTagHours(s, period, now)
            tagged(tag) == {i \in 1..Len(s.Ranges) : s.Ranges[i].Tag = tag}
            expect(tag) == clippedSum(s, tagged(tag), p.start, p.end)
            rest == binMinutes * Cardinality(uncoveredWorking(s, p.start, p.end))
        IN  /\ \A i \in 1..Len(s.Ranges) :
                  LET tag == s.Ranges[i].Tag
                  IN  tag # <<>> =>
                         IF expect(tag) > 0
                         THEN tag \in DOMAIN tagHours /\ tagHours[tag] = expect(tag)
                         ELSE tag \notin DOMAIN tagHours
            /\ IF expect(<<>>) + rest > 0
               THEN Untagged \in DOMAIN tagHours
                    /\ tagHours[Untagged] = expect(<<>>) + rest
               ELSE Untagged \notin DOMAIN tagHours
            /\ DOMAIN tagHours \subseteq
                  {Untagged} \cup {s.Ranges[i].Tag : i \in 1..Len(s.Ranges)}

\* the dashboard has tagged a working range that began before midnight: the
\* day gets only the part after midnight, the week all of it
C17_Witness ==
    /\ disk \notin {NoFile, Malformed}
    /\ \E i \in 1..Len(disk.Ranges) :
          LET r == disk.Ranges[i]
          IN  /\ r.Tag # <<>>
              /\ r.Status = 1
              /\ r.Start < Midnight(now)
              /\ r.End > Midnight(now)
              /\ calculateTagHours(disk, "day", now)[r.Tag] = (r.End - Midnight(now)) \div 60
              /\ calculateTagHours(disk, "week", now)[r.Tag] = (r.End - r.Start) \div 60

\* the sum of the durations of the working blocks among blocks lo..hi
RECURSIVE workingDuration(_, _, _)
workingDuration(blocks, lo, hi) ==
    IF lo > hi THEN 0
    ELSE IF lo = hi THEN (IF blocks[lo].status = 1 THEN blocks[lo].duration ELSE 0)
    ELSE LET half == workingDuration(blocks, lo, (lo + hi) \div 2)
         IN  IF half >= 0 THEN half + workingDuration(blocks, (lo + hi) \div 2 + 1, hi)
             ELSE half

\* C18: the durations of the working blocks of the daily timeline add up to
\* today's working minutes (todayTotals, and the total the report prints),
\* and working plus idle minutes are five times the number of buckets of
\* [midnight, floor(now)).
C18_DailyTotalAdditive ==
    \A s \in analysed \cup {store} :
        LET blocks == timelineOf(s, now)
            totals == todayTotals(s, now)
        IN  /\ workingDuration(blocks, 1, Len(blocks)) = totals.workMins
            /\ reportToday(s, now).totalWork = totals.workMins
            /\ totals.workMins + totals.idleMins = 5 * Cardinality(grid(now))

\* the tracker's ticks have ended; today's timeline of the persisted
\* document has working and idle blocks, several of them working, while now
\* is in the middle of a bucket that has a working sample
C18_Witness ==
    /\ disk \notin {NoFile, Malformed}
    /\ pc = "sleep"
    /\ ticks = MaxTicks
    /\ obs.bin = floorToBin(now)
    /\ now % BinSeconds # 0
    /\ LET blocks == timelineOf(disk, now)
       IN  /\ Cardinality({i \in 1..Len(blocks) : blocks[i].status = 1}) > 1
           /\ \E i \in 1..Len(blocks) : blocks[i].status = 0
           /\ \E i \in 1..Len(blocks) : blocks[i].duration > binMinutes
    /\ HasBin(disk, FormatInt(floorToBin(now)))
    /\ disk.Bins[FormatInt(floorToBin(now))] = 1
    /\ todayTotals(disk, now).workMins > 0

\* now is in the middle of a bucket for which store s has data
midBucket(s) == now % BinSeconds # 0 /\ hasData(s, floorToBin(now))

\* C19: when now falls in the middle of a bucket, the last segment of the
\* daily timeline ends at now and has the status of the current bucket.
C19_TruncatedFinalSegment ==
    \A s \in analysed \cup {store} :
        midBucket(s) =>
            LET blocks == timelineOf(s, now)
            IN  /\ Len(blocks) > 0
                /\ blocks[Len(blocks)].end = now
                /\ blocks[Len(blocks)].status =
                      fetchBins(s, Midnight(now), now)[floorToBin(now)]

\* C19 (amended): the daily timeline covers the whole buckets of
\* [midnight, floor(now)): its last segment ends at the bucket boundary
\* floor(now), and the timeline at now is the timeline at floor(now),
\* whatever the sample of the current bucket.
C19_FinalSegmentAtFloor ==
    \A s \in analysed \cup {store} :
        LET blocks == timelineOf(s, now)
            rows == reportToday(s, now).rows
        IN  /\ floorToBin(now) > Midnight(now) =>
                  /\ Len(blocks) > 0
                  /\ blocks[1].start = Midnight(now)
                  /\ blocks[Len(blocks)].end = floorToBin(now)
                  /\ rows[Len(rows)].end = floorToBin(now)
            /\ floorToBin(now) = Midnight(now) => blocks = <<>>
            /\ blocks = timelineOf(s, floorToBin(now))

\* a tick has recorded a working sample for the current bucket, now is past
\* the bucket's start, and the timeline of the document ends with an idle
\* segment at the bucket's start
C19_Witness ==
    /\ pc = "sleep"
    /\ ticks > 0
    /\ disk \notin {NoFile, Malformed}
    /\ midBucket(disk)
    /\ floorToBin(now) \in burst
    /\ fetchBins(disk, Midnight(now), now)[floorToBin(now)] = 1
    /\ LET blocks == timelineOf(disk, now)
       IN  /\ Len(blocks) > 1
           /\ blocks[Len(blocks)].status = 0
           /\ blocks[Len(blocks)].end = floorToBin(now)
           /\ blocks[Len(blocks)].end < now

\* the length of the longest run of consecutive working buckets of seq
longestRun(seq, status) ==
    LET n == Len(seq)
        working(i) == status[seq[i]] = 1
        starts == {i \in 1..n : working(i) /\ (i = 1 \/ ~working(i - 1))}
        stop(i) == CHOOSE j \in i..n :
                      /\ (j = n \/ ~working(j + 1))
                      /\ \A x \in i..j : working(x)
        lengths == {stop(i) - i + 1 : i \in starts}
    IN  IF starts = {} THEN 0
        ELSE CHOOSE l \in lengths : \A y \in lengths : ~(y > l)

\* C20: over today's resolved bucket sequence contextSwitches is the number
\* of pairs of consecutive buckets whose statuses differ and longestFocus is
\* five minutes times the longest run of consecutive working buckets; an
\* empty sequence gives (0, 0), a sequence without working bucket a longest
\* focus of 0.
C20_FocusStatistics ==
    \A s \in analysed \cup {store} :
        LET seq == daySeq(now)
            status == dayStatus(s, now)
            stats == calculateFocusStats(s, now)
        IN  /\ stats.contextSwitches =
                  Cardinality({i \in 1..(Len(seq) - 1) :
                                  status[seq[i]] # status[seq[i + 1]]})
            /\ stats.longestFocus = 5 * longestRun(seq, status)
            /\ Len(seq) = 0 => stats = [longestFocus |-> 0, contextSwitches |-> 0]
            /\ (\A i \in 1..Len(seq) : status[seq[i]] # 1) => stats.longestFocus = 0

\* the tracker's ticks have ended and today's sequence of the document
\* begins with a working bucket, changes status several times and has
\* working runs of different lengths
C20_Witness ==
    /\ pc = "sleep"
    /\ ticks = MaxTicks
    /\ disk \notin {NoFile, Malformed}
    /\ LET seq == daySeq(now)
           status == dayStatus(disk, now)
           stats == calculateFocusStats(disk, now)
       IN  /\ Len(seq) > 0
           /\ status[seq[1]] = 1
           /\ stats.contextSwitches > 2
           /\ stats.longestFocus > binMinutes
           /\ stats.longestFocus < todayTotals(disk, now).workMins

\* the characters of text before the first %, and from it on
beforePercent(text) == SubSeq(text, 1, IndexOf(text, "%") - 1)
fromPercent(text) == SubSeq(text, IndexOf(text, "%"), Len(text))

\* floor(a / b) for a >= 0 and b > 0
floorDiv(a, b) == CHOOSE q \in 0..a : q * b <= a /\ a < (q + 1) * b

\* C21: for worked >= 0 and goal > 0 the percentage formatPercentage
\* reports is floor(worked * 100 / goal), followed by the goal as a
\* duration; for goal = 0 the text is "0%".
C21_GoalMath ==
    calc.fn = "formatPercentage" =>
        LET workMins == calc.in[1]
            goalMins == calc.in[2]
        IN  /\ (goalMins > 0 /\ ~(workMins < 0)) =>
                  /\ Atoi(beforePercent(calc.out)) =
                        [ok |-> TRUE, n |-> floorDiv(workMins * 100, goalMins)]
                  /\ fromPercent(calc.out) =
                        <<"%", " ", "o", "f", " ">> \o humanDuration(goalMins)
            /\ goalMins = 0 => calc.out = <<"0", "%">>

\* a percentage above 100 that is not a whole multiple of the goal
C21_Witness ==
    /\ calc.fn = "formatPercentage"
    /\ calc.in[2] > 0
    /\ calc.in[1] > calc.in[2]
    /\ (calc.in[1] * 100) % calc.in[2] # 0
    /\ Atoi(beforePercent(calc.out)).n > 100

\* the ISO weekday ordinal of instant t: Monday 1 ... Sunday 7 (the first
\* day of 1970 is a Thursday)
isoWeekday(t) == ((t \div DaySeconds + 3) % 7) + 1

\* C23: isWorkDay(t, W) is true exactly when the ISO weekday ordinal of t
\* is an element of W, whatever the order of W and however often an
\* element is repeated.
C23_WorkdayMembership ==
    calc.fn = "isWorkDay" =>
        LET t == calc.in[1]
            W == calc.in[2]
        IN  calc.out = (isoWeekday(t) \in {W[i] : i \in 1..Len(W)})

\* a Sunday evening is a workday of a list that names day 7 after others
C23_Witness ==
    /\ calc.fn = "isWorkDay"
    /\ isoWeekday(calc.in[1]) = 7
    /\ calc.in[1] % DaySeconds # 0
    /\ Len(calc.in[2]) > 1
    /\ calc.out

\* the midnights of the calendar days of the period of civil reading c:
\* the Monday-to-Sunday week, the calendar month, the calendar year
periodDays(rng, c) ==
    LET today == c \div DaySeconds
        monday == today - (isoWeekday(c) - 1)
        near == {d \in (today - 370)..(today + 370) : d >= 0}
    IN  {d * DaySeconds : d \in
            CASE rng = "week" -> monday..(monday + 6)
              [] rng = "month" ->
                    {d \in near : Year(d * DaySeconds) = Year(c)
                                  /\ Month(d * DaySeconds) = Month(c)}
              [] rng = "year" -> {d \in near : Year(d * DaySeconds) = Year(c)}}

\* C22: for the week, the month and the year the goal in minutes is the
\* number of calendar days of the period whose weekday is in the workday
\* set, times the daily goal, in the report and in the dashboard's period
\* progress alike.
C22_PeriodGoal ==
    calc.fn = "periodGoal" =>
        LET c == civilOf(calc.in[1], calc.in[2])
            cfg == calc.in[3]
            W == {cfg.WorkDays[i] : i \in 1..Len(cfg.WorkDays)}
            expected(rng) ==
                Cardinality({d \in periodDays(rng, c) : isoWeekday(d) \in W})
                * cfg.DailyGoalMinutes
        IN  \A rng \in ReportRanges :
                /\ calc.out.report[rng].shown
                /\ calc.out.report[rng].mins = expected(rng)
                /\ calc.out.dashboard[rng] = expected(rng)

\* C26: for every instant t, floorToBin(t) has seconds 0 and a minute that
\* is a multiple of 5, floorToBin(t) <= t < floorToBin(t) + 5 minutes,
\* floorToBin is idempotent, and nextBinStart(t) = floorToBin(t) + 5 minutes.
C26_BucketClock ==
    calc.fn = "floorToBin" =>
        LET t == calc.in[2]
            f == calc.out.floor
            civil == civilOf(calc.in[1], f)
        IN  /\ civil % 60 = 0
            /\ ((civil % 3600) \div 60) % 5 = 0
            /\ f <= t
            /\ t < f + 5 * 60
            /\ calc.out.again = f
            /\ calc.out.next = f + 5 * 60

\* C24: over the 30 calendar days ending today the best day shown has the
\* maximum and the worst day the minimum of the per-day working minutes
\* taken over the days with more than zero working minutes; a day with zero
\* minutes is never shown as worst, best >= worst, and when no day has
\* working minutes neither a best nor a worst day is shown.
C24_BestWorstDay ==
    calc.fn = "findBestWorstDays" =>
        LET s == calc.in[1]
            t == calc.in[2]
            best == calc.out.best
            worst == calc.out.worst
            days == {Midnight(t) - k * DaySeconds : k \in 0..29}
            worked == {d \in days : dayWorkMins(s, d) > 0}
        IN  IF worked = {} THEN ~best.shown /\ ~worst.shown
            ELSE /\ best.shown /\ worst.shown
                 /\ best.day \in worked /\ worst.day \in worked
                 /\ best.mins = dayWorkMins(s, best.day)
                 /\ worst.mins = dayWorkMins(s, worst.day)
                 /\ \A d \in worked : /\ dayWorkMins(s, d) <= best.mins
                                      /\ dayWorkMins(s, d) >= worst.mins
                 /\ worst.mins > 0
                 /\ best.mins >= worst.mins

\* two days with different working minutes and 28 days without any: the
\* best and the worst day differ
C24_Witness ==
    /\ calc.fn = "findBestWorstDays"
    /\ calc.out.best.shown /\ calc.out.worst.shown
    /\ calc.out.best.mins > calc.out.worst.mins
    /\ calc.out.best.day # calc.out.worst.day

\* no day of the 30 has working minutes although the document has samples
C24_WitnessNone ==
    /\ calc.fn = "findBestWorstDays"
    /\ calc.in[1].Bins # EmptyBins
    /\ ~calc.out.best.shown /\ ~calc.out.worst.shown

\* C25: in the sampling loop compaction is invoked after an upsert (and the
\* save that follows it) whenever the raw sample count is at least 100.
C25_CompactionThreshold ==
    [][pc = "save" /\ binCount(store) >= 100 => pc' = "compact"]_vars

\* the stores of a state: the persisted document, the tracker's store, the
\* dashboard's store
storesHeld ==
    (IF disk \in {NoFile, Malformed} THEN {} ELSE {disk})
    \cup {store}
    \cup (IF m.running THEN {m.store} ELSE {})

onGrid(t) == t % (5 * 60) = 0

\* C27: in every store reached from an empty document by sampling ticks,
\* compaction passes and dashboard tag edits, every range has start < end,
\* its start and its end lie on the 5-minute bucket grid, and every
\* raw-sample key is a bucket-start instant.
C27_RangeGrid ==
    \A s \in storesHeld :
        /\ \A i \in 1..Len(s.Ranges) :
              /\ s.Ranges[i].Start < s.Ranges[i].End
              /\ onGrid(s.Ranges[i].Start)
              /\ onGrid(s.Ranges[i].End)
        /\ \A k \in DOMAIN s.Bins :
              /\ onGrid(ParseInt(k))
              /\ floorToBin(ParseInt(k)) = ParseInt(k)

\* after a compaction pass of the tracker and a tag save of the dashboard
\* the document holds a tagged and an untagged range, and the dashboard
\* still holds raw samples
C27_Witness ==
    /\ pre # NoStore
    /\ savedEdit # NoEdit
    /\ disk \notin {NoFile, Malformed}
    /\ m.running
    /\ DOMAIN m.store.Bins # {}
    /\ \E i, j \in 1..Len(disk.Ranges) :
          disk.Ranges[i].Tag # <<>> /\ disk.Ranges[j].Tag = <<>>

\* C28: after every completed sampling tick of the tracker (reload, upsert,
\* save, compaction and second save when due) the tracker's store holds at
\* most 100 raw samples, whatever the earlier ticks were and however the
\* dashboard's saves interleave.
C28_BoundedRawStorage ==
    pc = "sleep" => binCount(store) <= 100

\* a tick has ended with a compaction pass over 101 raw samples that left
\* none, after the dashboard saved a tag
C28_Witness ==
    /\ pc = "sleep"
    /\ ticks >= 1
    /\ savedEdit # NoEdit
    /\ pre # NoStore
    /\ binCount(pre) = 101
    /\ binCount(store) = 0

\* the step in which the dashboard's enter key saves a tag: saveTag, the
\* catalogue entry, saveStore
tagSaveStep ==
    /\ m.running
    /\ tagSaves(m, "enter")
    /\ keys' = keys + 1
    /\ last' = "key"
    /\ savedEdit' = editOf(m)
    /\ m' = afterCmd(updateKey(m, "enter", disk, now).m, updateKey(m, "enter", disk, now).cmd)
    /\ disk' = updateKey(m, "enter", disk, now).disk

\* every raw sample of store s is in document d with the same status, and
\* every range of s is in d with the same bounds and status
keptIn(s, d) ==
    /\ \A k \in DOMAIN s.Bins : k \in DOMAIN d.Bins /\ d.Bins[k] = s.Bins[k]
    /\ \A i \in 1..Len(s.Ranges) :
          \E j \in 1..Len(d.Ranges) :
              /\ d.Ranges[j].Start = s.Ranges[i].Start
              /\ d.Ranges[j].End = s.Ranges[i].End
              /\ d.Ranges[j].Status = s.Ranges[i].Status

\* C29: every raw sample and every range persisted before the dashboard
\* saves a tag is in the persisted document after that save, with the same
\* status.
C29_TagSaveKeepsTrackerData ==
    [][(tagSaveStep /\ disk \notin {NoFile, Malformed}) => keptIn(disk, disk')]_vars

\* C29 amended: a tag save persists the dashboard's store: every raw sample
\* and every range the dashboard held since its last reload is in the
\* document after the save, the ranges in their places, and the document
\* holds no raw sample the dashboard did not hold.
C29_TagSaveWritesDashboardStore ==
    [][tagSaveStep =>
        /\ keptIn(m.store, disk')
        /\ DOMAIN disk'.Bins = DOMAIN m.store.Bins
        /\ Len(disk'.Ranges) \in {Len(m.store.Ranges), Len(m.store.Ranges) + 1}
        /\ \A i \in 1..Len(m.store.Ranges) :
              /\ disk'.Ranges[i].Start = m.store.Ranges[i].Start
              /\ disk'.Ranges[i].End = m.store.Ranges[i].End
              /\ disk'.Ranges[i].Status = m.store.Ranges[i].Status]_vars

\* the dashboard's tag save has replaced the document of a completed tick:
\* the tracker holds a raw sample the document no longer has
C29_Witness ==
    /\ pc = "sleep"
    /\ last = "key"
    /\ savedEdit # NoEdit
    /\ m.running
    /\ disk = saveStore(m.store)
    /\ DOMAIN store.Bins \ DOMAIN disk.Bins # {}

\* the minutes calculateTagHours attributes to tag in the period
taggedMins(s, period, tag, t) ==
    LET hours == calculateTagHours(s, period, t)
    IN  IF tag \in DOMAIN hours THEN hours[tag] ELSE 0

\* the timeline block the tag dialog is open on
selectedBlock == m.timelineBlocks[m.selectedTimeline + 1]

\* no range of s tagged tag meets [lo, hi)
untaggedBy(s, tag, lo, hi) ==
    \A i \in 1..Len(s.Ranges) :
        s.Ranges[i].Tag = tag => (s.Ranges[i].End <= lo \/ s.Ranges[i].Start >= hi)

\* C30: after the user saves a non-empty tag T on a working timeline block
\* [s, e) no part of which was tagged T, the day's minutes of T have grown
\* by e - s, and so have the week's: no time outside [s, e) has become
\* tagged T.
C30_TagWholeBlock ==
    [][(/\ tagSaveStep
        /\ m.tagInput # <<>>
        /\ selectedBlock.status = 1
        /\ untaggedBy(m.store, m.tagInput, selectedBlock.start, selectedBlock.end))
       => \A period \in {"day", "week"} :
              taggedMins(m'.store, period, m.tagInput, now)
                  - taggedMins(m.store, period, m.tagInput, now)
              = (selectedBlock.end - selectedBlock.start) \div 60]_vars

\* the ranges of s whose half-open interval contains instant t, by position
rangesAt(s, t) ==
    {j \in 1..Len(s.Ranges) : s.Ranges[j].Start <= t /\ t < s.Ranges[j].End}

\* C31: for every timeline block, tag, note and rangeIdx are those of the
\* lowest-index range of the dashboard's store whose interval contains the
\* block's start; when no range contains it the block is untagged with
\* rangeIdx = -1.
C31_FirstRangeAuthoritative ==
    m.running =>
        \A i \in 1..Len(m.timelineBlocks) :
            LET b == m.timelineBlocks[i]
                hits == rangesAt(m.store, b.start)
            IN  IF hits = {}
                THEN b.tag = <<>> /\ b.note = <<>> /\ b.rangeIdx = -1
                ELSE /\ b.rangeIdx + 1 \in hits
                     /\ \A j \in hits : b.rangeIdx + 1 <= j
                     /\ b.tag = m.store.Ranges[b.rangeIdx + 1].Tag
                     /\ b.note = m.store.Ranges[b.rangeIdx + 1].Note

\* the dashboard has reloaded a document in which two ranges contain the
\* start of one block, and shows another block that no range contains
C31_Witness ==
    /\ m.running
    /\ last = "tick"
    /\ \E i \in 1..Len(m.timelineBlocks) :
          Cardinality(rangesAt(m.store, m.timelineBlocks[i].start)) >= 2
    /\ \E i \in 1..Len(m.timelineBlocks) : m.timelineBlocks[i].rangeIdx = -1

\* the working raw samples of s inside [start, end) whose bucket no range
\* of s contains
rawUncovered(s, start, end) ==
    {k \in DOMAIN s.Bins :
        /\ s.Bins[k] = 1
        /\ start <= ParseInt(k) /\ ParseInt(k) < end
        /\ rangesAt(s, ParseInt(k)) = {}}

\* what the pass over the resolved buckets adds to "(untagged)": the total
\* less the minutes of the working ranges without tag
rawPassMins(s, period, t) ==
    LET p == periodOf(period, t)
    IN  taggedMins(s, period, Untagged, t)
        - tagMins(s.Ranges, Len(s.Ranges), <<>>, p.start, p.end)

\* C32: in calculateTagHours every working raw sample inside the period
\* whose bucket no range covers adds one bucket width (5 minutes) to
\* "(untagged)", and a raw sample whose bucket some range covers adds
\* nothing in the raw-sample pass.
C32_UntaggedRawTime ==
    \A s \in analysed : \A period \in Periods :
        LET p == periodOf(period, now)
        IN  rawPassMins(s, period, now) = 5 * Cardinality(rawUncovered(s, p.start, p.end))

\* after a tag save a store holds working raw samples that no range covers
\* and working raw samples under the range the save appended: the day's
\* raw-sample pass counts five minutes for each of the first kind only
C32_Witness ==
    /\ savedEdit # NoEdit
    /\ \E s \in analysed :
          LET uncovered == rawUncovered(s, Midnight(now), Midnight(now) + DaySeconds)
          IN  /\ uncovered # {}
              /\ \E k \in DOMAIN s.Bins : s.Bins[k] = 1 /\ rangesAt(s, ParseInt(k)) # {}
              /\ rawPassMins(s, "day", now) = 5 * Cardinality(uncovered)

\* C33: the sampling loop never stops on its own: a tick that has begun
\* comes to its sleep, whether the probe, the reload or a save failed or
\* compaction ran, and after the sleep another tick begins (ticks are
\* counted up to MaxTicks); every tick whose probe succeeded ends with a raw
\* sample or a covering range for its bucket in the tracker's store.
C33_LoopNeverStops ==
    /\ (pc # "sleep") ~> (pc = "sleep")
    /\ (pc = "sleep" /\ ticks < MaxTicks) ~> (pc = "probe")
    /\ [][(pc \in {"save", "save2"} /\ pc' = "sleep") =>
            \/ FormatInt(obs.bin) \in DOMAIN store'.Bins
            \/ rangesAt(store', obs.bin) # {}]_vars

\* a tick has ended after both of its saves failed and compaction ran: its
\* bucket is under a range in memory and has nothing in the document
C33_Witness ==
    /\ pc = "sleep"
    /\ pre # NoStore
    /\ pending.tracker # NoSample
    /\ binCount(store) = 0
    /\ rangesAt(store, obs.bin) # {}
    /\ rangesAt(disk, obs.bin) = {}
    /\ FormatInt(obs.bin) \notin DOMAIN disk.Bins

\* C34: compactBins called with fewer than compactMinBins raw samples
\* returns the store as it was; when it runs, the ranges it had are the
\* first ranges of the result, each as it was and where it was, at least one
\* range comes after them, no raw sample is left, and the configuration and
\* the tag catalogue are as they were.
C34_CompactionFrame ==
    calc.fn = "compactBins" =>
        LET s == calc.in[1]
            out == calc.out
        IN  IF binCount(s) < compactMinBins THEN out = s
            ELSE /\ Len(out.Ranges) > Len(s.Ranges)
                 /\ SubSeq(out.Ranges, 1, Len(s.Ranges)) = s.Ranges
                 /\ out.Bins = EmptyBins
                 /\ out.Config = s.Config
                 /\ out.Tags = s.Tags

\* a pass ran on a store that held a tagged range, a saved tag and a goal
\* set by the user
C34_Witness ==
    /\ calc.fn = "compactBins"
    /\ binCount(calc.in[1]) >= compactMinBins
    /\ Len(calc.in[1].Ranges) > 0
    /\ calc.in[1].Ranges[1].Tag # <<>>
    /\ calc.in[1].Tags # <<>>
    /\ calc.in[1].Config.DailyGoalMinutes # defaultGoalMinutes
    /\ calc.out.Ranges[1].Tag = calc.in[1].Ranges[1].Tag

\* a call with one raw sample fewer than the pass needs, ranges present
C34_WitnessBelow ==
    /\ calc.fn = "compactBins"
    /\ binCount(calc.in[1]) = compactMinBins - 1
    /\ Len(calc.in[1].Ranges) > 0
    /\ calc.out = calc.in[1]

\* a comes before b in byte order: a is a proper prefix of b, or at the
\* first place the two differ a has the smaller byte
bytesBefore(a, b) ==
    \E k \in 1..Len(b) :
        /\ \A i \in 1..(k - 1) : i <= Len(a) /\ a[i] = b[i]
        /\ (k > Len(a) \/ a[k] < b[k])

\* sorted, duplicate-free and without the empty string
catalogueOk(c) ==
    /\ \A i \in 1..Len(c) : c[i] # <<>>
    /\ \A i \in 1..(Len(c) - 1) : bytesBefore(c[i], c[i + 1])

words(c) == {c[i] : i \in 1..Len(c)}

\* C35: a dashboard tag save on a catalogue that is sorted, duplicate-free
\* and without the empty string leaves such a catalogue, in the store and
\* in the document; the catalogue gains the saved tag, and nothing else,
\* exactly when the tag is non-empty and was not in it; a save of the empty
\* tag leaves the catalogue as it was and the selected block's range with
\* an empty tag.
C35_TagCatalogue ==
    (calc.fn = "handleTagDialog" /\ catalogueOk(calc.in.store.Tags)) =>
        LET before == calc.in.store.Tags
            after == calc.out.store.Tags
            tag == calc.in.tagInput
            block == calc.in.timelineBlocks[calc.in.selectedTimeline + 1]
            ranges == calc.out.store.Ranges
            adds == tag # <<>> /\ tag \notin words(before)
        IN  /\ catalogueOk(after)
            /\ calc.doc.Tags = after
            /\ words(after) = words(before) \cup (IF adds THEN {tag} ELSE {})
            /\ Len(after) = Len(before) + (IF adds THEN 1 ELSE 0)
            /\ ~adds => after = before
            /\ tag = <<>> =>
                  IF block.rangeIdx >= 0
                  THEN ranges[block.rangeIdx + 1].Tag = <<>>
                  ELSE /\ ranges[Len(ranges)].Tag = <<>>
                       /\ ranges[Len(ranges)].Start = block.start

\* a save put a word between two saved words
C35_Witness ==
    /\ calc.fn = "handleTagDialog"
    /\ Len(calc.in.store.Tags) = 2
    /\ Len(calc.out.store.Tags) = 3
    /\ calc.out.store.Tags[2] = calc.in.tagInput

\* a save of the empty tag cleared the tag of the selected block's range
C35_WitnessCleared ==
    /\ calc.fn = "handleTagDialog"
    /\ calc.in.tagInput = <<>>
    /\ calc.in.store.Tags # <<>>
    /\ LET block == calc.in.timelineBlocks[calc.in.selectedTimeline + 1]
       IN  /\ block.rangeIdx >= 0
           /\ calc.in.store.Ranges[block.rangeIdx + 1].Tag # <<>>
           /\ calc.out.store.Ranges[block.rangeIdx + 1].Tag = <<>>

\* a save of a word the catalogue held
C35_WitnessPresent ==
    /\ calc.fn = "handleTagDialog"
    /\ calc.in.tagInput # <<>>
    /\ calc.in.tagInput \in words(calc.in.store.Tags)
    /\ calc.out.store.Tags = calc.in.store.Tags

\* C36: whenever the dashboard's timeline has at least one block, the
\* selection is the index of one of its blocks:
\* 0 <= selectedTimeline < len(timelineBlocks).
C36_SelectionValid ==
    (m.running /\ Len(m.timelineBlocks) >= 1) =>
        (0 <= m.selectedTimeline /\ m.selectedTimeline < Len(m.timelineBlocks))

\* the value of a config argument: the text after the first =
valueOf(arg) == SplitN2(arg, "=")[2]

\* HH * 60 + MM of an argument dailygoal=HH:MM
goalOf(arg) ==
    LET parts == Split(valueOf(arg), ":")
    IN  Atoi(parts[1]).n * 60 + Atoi(parts[2]).n

\* the config command that has just run set the daily goal
goalSet ==
    /\ cli'.n # cli.n
    /\ cli'.exit = 0
    /\ SplitN2(cli'.arg, "=")[1] = KeyDailyGoal

\* C37: after a successful --config dailygoal=HH:MM the next load of the
\* document yields a daily goal of exactly HH * 60 + MM minutes, for every
\* input the command accepts, 00:00 among them.
C37_DailyGoalRoundTrip ==
    [][goalSet =>
          /\ loadStore(disk', FALSE).ok
          /\ loadStore(disk', FALSE).store.Config.DailyGoalMinutes = goalOf(cli'.arg)]_vars

\* the config command that has just run set the workdays
workDaysSet ==
    /\ cli'.n # cli.n
    /\ cli'.exit = 0
    /\ SplitN2(cli'.arg, "=")[1] = KeyWorkDays

\* C38: after a successful --config workdays=... the stored workday list is
\* non-empty, holds only ordinals in 1..7, holds none of them twice, and is
\* the list the next load yields.
C38_WorkDaysAreASet ==
    [][workDaysSet =>
          LET w == disk'.Config.WorkDays
          IN  /\ Len(w) > 0
              /\ \A i \in 1..Len(w) : w[i] \in 1..7
              /\ \A i, j \in 1..Len(w) : w[i] = w[j] => i = j
              /\ loadStore(disk', FALSE).store.Config.WorkDays = w]_vars

\* C39: for one store at one instant, today's working minutes of the daily
\* report and of the dashboard summary (reportToday, todayTotals) are
\* today's working minutes of the multi-day views: today's row of the week
\* report (reportAggregateDaily), today's entry of create7DayWorkingHours
\* and the minutes findBestWorstDays computes for today.
C39_ReportsAgreeOnToday ==
    \A s \in analysed \cup {store} :
        LET today == todayTotals(s, now).workMins
            weekStart == weekStartOf(now)
            row == (Midnight(now) - weekStart) \div DaySeconds + 1
        IN  /\ reportToday(s, now).totalWork = today
            /\ aggregateDailyRows(s, weekStart, 7)[row] = today
            /\ sevenDayWorkMins(s, now)[7] = today
            /\ dayWorkMins(s, Midnight(now)) = today

====
